---------------------------- MODULE Spec2Model ----------------------------
(***************************************************************************)
(* Tunnel framing layer of switchboard (internal/protocol): the frame      *)
(* codec (encodeFrameTo / decodeFrameFrom), the logical-message send and   *)
(* receive paths of Conn (Send, sendWithFragmentation, ReadNext,           *)
(* readFrame) and the context plumbing (applyReadContext /                 *)
(* applyWriteContext with context.AfterFunc).                              *)
(*                                                                         *)
(* Bytes are the integers 0..255, a frame on the wire is its 18 header     *)
(* bytes followed by its payload bytes, and an error value is the set of   *)
(* sentinels errors.Is reports for it (errors.Join(ErrProtocol, ErrBadMagic)*)
(* is {"ErrProtocol", "ErrBadMagic"}; nil is the empty set).               *)
(***************************************************************************)
EXTENDS Integers, Sequences, FiniteSets, TLC

VARIABLES
    arg,        \* input drawn for a codec run (message, header bytes, max payloads)
    res,        \* what the codec computed from arg ("none" before the run)
    wire,       \* bytes written to the sender's endpoint and not yet read by the peer
    ncClosed,   \* the receiving Conn's endpoint (c.nc) has been closed
    peerClosed, \* the sending side has closed its endpoint: EOF once wire is drained
    rDeadline,  \* read deadline of the receiving endpoint: "none", "future", "past"
    wDeadline,  \* write deadline of the sending endpoint
    readMu,     \* holder of c.readMu ("free" or a reader task)
    writeMu,    \* holder of c.writeMu ("free" or a sender task)
    ctx,        \* per token: [done |-> BOOLEAN, err |-> error set]
    hook,       \* per task: state of the context.AfterFunc hook of its current call
    snd,        \* per sender task: its Send call (pc, message, frames left, result)
    rcv,        \* per reader task: its ReadNext call (pc, opener, buffer, result)
    log,        \* history: what each call wrote, what was delivered, in order
    maxFramePayload, \* c.maxFramePayload, the same at both ends
    hs,         \* the auth handshake: clock, both roles, the messages in flight
    ks          \* the agent key store: the two key files, the calls in progress

pureVars == <<arg, res>>
connVars == <<wire, ncClosed, peerClosed, rDeadline, wDeadline, readMu, writeMu,
              ctx, hook, snd, rcv, log>>
authVars == <<hs, ks>>
vars == <<arg, res, wire, ncClosed, peerClosed, rDeadline, wDeadline, readMu,
          writeMu, ctx, hook, snd, rcv, log, maxFramePayload, hs, ks>>

-----------------------------------------------------------------------------
(* Bounds of the model *)

\* largest configured max frame payload drawn (WithMaxFramePayloadBytes(n), n > 0)
MaxMaxPayload == 6
\* longest Data / Payload of a message drawn for a codec run
MaxDataLen == 7

-----------------------------------------------------------------------------
(* types.go: frame types, payload kinds, flags *)

TypeAuthBegin == 1
TypeAuthChallenge == 2
TypeAuthProof == 3
TypeAuthOK == 4
TypeAuthError == 5
TypeMessagePayload == 16
TypePing == 254
TypePong == 255

PayloadKindRequest == 1
PayloadKindResponse == 2
PayloadKindOneway == 3

PayloadFormatOpaqueBytes == 0

flagStart == 1
flagEnd == 2
startEndFlags == 3

v1Magic0 == 83
v1Magic1 == 66
v1Version == 1
headerLen == 18

AuthTypes == {TypeAuthBegin, TypeAuthChallenge, TypeAuthProof, TypeAuthOK, TypeAuthError}

isKnownType(t) ==
    t \in AuthTypes \cup {TypeMessagePayload, TypePing, TypePong}

\* a START test that every frame passes
HasStartAlways(flags) == TRUE

\* flags & flagStart != 0, flags & flagEnd != 0, flags &^ (flagStart|flagEnd) != 0
HasStart(flags) == flags % 2 = 1
HasEnd(flags) == (flags \div 2) % 2 = 1
HasOtherBits(flags) == flags \div 4 # 0

(* errors.go: the sentinels; an error is the set of sentinels it wraps *)
NoErr == {}
ErrProtocol == {"ErrProtocol"}
ErrBadMagic == {"ErrProtocol", "ErrBadMagic"}
ErrBadVersion == {"ErrProtocol", "ErrBadVersion"}
ErrUnknownType == {"ErrProtocol", "ErrUnknownType"}
ErrInvalidFlags == {"ErrProtocol", "ErrInvalidFlags"}
ErrFrameTooLarge == {"ErrProtocol", "ErrFrameTooLarge"}
ErrFragmentation == {"ErrProtocol", "ErrFragmentation"}
ErrEnvelope == {"ErrProtocol", "ErrEnvelope"}
ErrInvalidStreamID == {"ErrProtocol", "ErrInvalidStreamID"}

\* errors of the transport and of the token
ErrEOF == {"io.EOF"}
ErrUnexpectedEOF == {"io.ErrUnexpectedEOF"}
ErrTimeout == {"os.ErrDeadlineExceeded"}
ErrClosed == {"io.ErrClosedPipe"}
ErrCanceled == {"context.Canceled"}
ErrCtxDeadline == {"context.DeadlineExceeded"}

ProtocolSentinels ==
    {"ErrProtocol", "ErrBadMagic", "ErrBadVersion", "ErrFrameTooLarge", "ErrUnknownType",
     "ErrInvalidFlags", "ErrFragmentation", "ErrEnvelope", "ErrInvalidStreamID"}

isProtocolErr(err) == err # NoErr /\ err \cap ProtocolSentinels # {}

-----------------------------------------------------------------------------
(* Byte helpers *)

Byte == 0..255

Take(s, n) == SubSeq(s, 1, IF n < Len(s) THEN n ELSE Len(s))
Drop(s, n) == SubSeq(s, (IF n < Len(s) THEN n ELSE Len(s)) + 1, Len(s))

\* binary.BigEndian.PutUintNN: the n big-endian bytes of v
RECURSIVE PutUint(_, _)
PutUint(v, n) ==
    IF n = 0 THEN <<>> ELSE Append(PutUint(v \div 256, n - 1), v % 256)

\* binary.BigEndian.UintNN: the value of big-endian bytes
RECURSIVE Uint(_)
Uint(bs) ==
    IF bs = <<>> THEN 0 ELSE Uint(SubSeq(bs, 1, Len(bs) - 1)) * 256 + bs[Len(bs)]

-----------------------------------------------------------------------------
(* frame.go: the codec *)

\* the header encodeFrameTo builds for a frame
frameHeader(typ, flags, streamID, payload) ==
    <<v1Magic0, v1Magic1, v1Version, typ>>
        \o PutUint(flags, 2) \o PutUint(streamID, 8) \o PutUint(Len(payload), 4)

\* the writes encodeFrameTo makes, in order: the header, then the payload if any
encodeFrameTo(typ, flags, streamID, payload) ==
    IF payload = <<>>
    THEN << frameHeader(typ, flags, streamID, payload) >>
    ELSE << frameHeader(typ, flags, streamID, payload), payload >>

\* decodeHeader with the size check moved before the flags check
decodeHeaderSizeFirst(hdr, maxPayload) ==
    LET typ == hdr[4]
        flags == Uint(SubSeq(hdr, 5, 6))
        streamID == Uint(SubSeq(hdr, 7, 14))
        payloadLn == Uint(SubSeq(hdr, 15, 18))
        bad(e) == [err |-> e, typ |-> 0, flags |-> 0, streamID |-> 0, payloadLn |-> 0]
    IN  IF hdr[1] # v1Magic0 \/ hdr[2] # v1Magic1 THEN bad(ErrBadMagic)
        ELSE IF hdr[3] # v1Version THEN bad(ErrBadVersion)
        ELSE IF ~isKnownType(typ) THEN bad(ErrUnknownType)
        ELSE IF payloadLn > maxPayload THEN bad(ErrFrameTooLarge)
        ELSE IF HasOtherBits(flags) THEN bad(ErrInvalidFlags)
        ELSE [err |-> NoErr, typ |-> typ, flags |-> flags, streamID |-> streamID,
              payloadLn |-> payloadLn]

\* the header checks of decodeFrameFrom, in the code's order, on 18 header bytes
\* (maxPayload stays below 2^31 here, where uint32(maxPayload) = maxPayload)
decodeHeader(hdr, maxPayload) ==
    LET typ == hdr[4]
        flags == Uint(SubSeq(hdr, 5, 6))
        streamID == Uint(SubSeq(hdr, 7, 14))
        payloadLn == Uint(SubSeq(hdr, 15, 18))
        bad(e) == [err |-> e, typ |-> 0, flags |-> 0, streamID |-> 0, payloadLn |-> 0]
    IN  IF hdr[1] # v1Magic0 \/ hdr[2] # v1Magic1 THEN bad(ErrBadMagic)
        ELSE IF hdr[3] # v1Version THEN bad(ErrBadVersion)
        ELSE IF ~isKnownType(typ) THEN bad(ErrUnknownType)
        ELSE IF HasOtherBits(flags) THEN bad(ErrInvalidFlags)
        ELSE IF payloadLn > maxPayload THEN bad(ErrFrameTooLarge)
        ELSE [err |-> NoErr, typ |-> typ, flags |-> flags, streamID |-> streamID,
              payloadLn |-> payloadLn]

-----------------------------------------------------------------------------
(* types.go: Message, and the frame as decodeFrameFrom returns it *)

Message(typ, streamID, payload, kind, format, data) ==
    [Type |-> typ, StreamID |-> streamID, Payload |-> payload,
     Kind |-> kind, Format |-> format, Data |-> data]

\* Message{}: the zero value ReadNext returns beside an error
ZeroMessage == Message(0, 0, <<>>, 0, 0, <<>>)

Frame(typ, flags, streamID, payload) ==
    [typ |-> typ, flags |-> flags, streamID |-> streamID, payload |-> payload]

-----------------------------------------------------------------------------
(* conn.go: Send.  SendFrames is the frames a Send call hands to              *)
(* encodeFrameTo, in order, or the error it returns before writing anything.  *)

\* the chunk loop of sendWithFragmentation
RECURSIVE fragmentLoop(_, _, _, _, _)
fragmentLoop(typ, streamID, remaining, first, maxFrame) ==
    IF remaining = <<>> THEN <<>>
    ELSE LET chunk == Take(remaining, maxFrame)
             rest == Drop(remaining, maxFrame)
             flags == (IF first THEN flagStart ELSE 0) + (IF rest = <<>> THEN flagEnd ELSE 0)
         IN  <<Frame(typ, flags, streamID, chunk)>>
                 \o fragmentLoop(typ, streamID, rest, FALSE, maxFrame)

\* sendWithFragmentation going through the chunk loop whatever the length
sendWithFragmentationLoopOnly(typ, streamID, payload, maxFrame) ==
    fragmentLoop(typ, streamID, payload, TRUE, maxFrame)

sendWithFragmentation(typ, streamID, payload, maxFrame) ==
    IF Len(payload) <= maxFrame
    THEN <<Frame(typ, startEndFlags, streamID, payload)>>
    ELSE fragmentLoop(typ, streamID, payload, TRUE, maxFrame)

\* a continuation "loop" that puts all that remains into one frame
continuationLoopWhole(streamID, remaining, maxFrame) ==
    IF remaining = <<>> THEN <<>>
    ELSE <<Frame(TypeMessagePayload, flagEnd, streamID, remaining)>>

\* the continuation loop of Send for TypeMessagePayload
RECURSIVE continuationLoop(_, _, _)
continuationLoop(streamID, remaining, maxFrame) ==
    IF remaining = <<>> THEN <<>>
    ELSE LET chunk == Take(remaining, maxFrame)
             rest == Drop(remaining, maxFrame)
             flags == IF rest = <<>> THEN flagEnd ELSE 0
         IN  <<Frame(TypeMessagePayload, flags, streamID, chunk)>>
                 \o continuationLoop(streamID, rest, maxFrame)

\* firstDataCap without the room the envelope takes
firstDataCapNoEnvelope(maxFrame) == maxFrame

\* how many Data bytes Send packs behind the envelope of the first frame
firstDataCap(maxFrame) == maxFrame - 4

\* a check of the envelope's size that every configuration passes
envelopeNeverTooLarge(maxFrame) == FALSE

\* envelopeTooLarge with >= for >
envelopeTooLargeOrEqual(maxFrame) == 4 >= maxFrame

\* Send's check that the envelope fits a frame
envelopeTooLarge(maxFrame) == 4 > maxFrame

sendMessagePayload(msg, maxFrame) ==
    LET format == IF msg.Format = 0 THEN PayloadFormatOpaqueBytes ELSE msg.Format
        envelope == <<msg.Kind, format, 0, 0>>
        firstData == Take(msg.Data, firstDataCap(maxFrame))
        firstPayload == envelope \o firstData
        remaining == Drop(msg.Data, Len(firstData))
    IN  IF msg.StreamID = 0 THEN [err |-> ErrInvalidStreamID, frames |-> <<>>]
        ELSE IF format # PayloadFormatOpaqueBytes THEN [err |-> ErrProtocol, frames |-> <<>>]
        ELSE IF msg.Kind \notin {PayloadKindRequest, PayloadKindResponse, PayloadKindOneway}
             THEN [err |-> ErrProtocol, frames |-> <<>>]
        ELSE IF envelopeTooLarge(maxFrame) THEN [err |-> ErrProtocol, frames |-> <<>>]
        ELSE IF remaining = <<>>
             THEN [err |-> NoErr,
                   frames |-> <<Frame(TypeMessagePayload, startEndFlags, msg.StreamID, firstPayload)>>]
        ELSE [err |-> NoErr,
              frames |-> <<Frame(TypeMessagePayload, flagStart, msg.StreamID, firstPayload)>>
                            \o continuationLoop(msg.StreamID, remaining, maxFrame)]

SendFrames(msg, maxFrame) ==
    IF msg.Type \in {TypePing, TypePong}
    THEN IF msg.StreamID # 0 THEN [err |-> ErrInvalidStreamID, frames |-> <<>>]
         ELSE IF msg.Payload # <<>> \/ msg.Data # <<>> THEN [err |-> ErrProtocol, frames |-> <<>>]
         ELSE [err |-> NoErr, frames |-> <<Frame(msg.Type, startEndFlags, 0, <<>>)>>]
    ELSE IF msg.Type \in AuthTypes
    THEN IF msg.StreamID # 0 THEN [err |-> ErrInvalidStreamID, frames |-> <<>>]
         ELSE [err |-> NoErr,
               frames |-> sendWithFragmentation(msg.Type, 0, msg.Payload, maxFrame)]
    ELSE IF msg.Type = TypeMessagePayload
    THEN sendMessagePayload(msg, maxFrame)
    ELSE [err |-> ErrUnknownType, frames |-> <<>>]

\* the writes of a sequence of frames, in order (header, payload, header, ...)
RECURSIVE WritesOf(_)
WritesOf(frames) ==
    IF frames = <<>> THEN <<>>
    ELSE encodeFrameTo(frames[1].typ, frames[1].flags, frames[1].streamID, frames[1].payload)
             \o WritesOf(Tail(frames))

RECURSIVE Flatten(_)
Flatten(chunks) == IF chunks = <<>> THEN <<>> ELSE chunks[1] \o Flatten(Tail(chunks))

-----------------------------------------------------------------------------
(* conn.go: ReadNext.  readOpen is what ReadNext does with the first frame  *)
(* it read, readCont what its reassembly loops do with each further frame.  *)
(* Both return [err, close, done, msg]: the error to return (NoErr if none),*)
(* whether c.nc.Close() was called, whether the message is complete, and    *)
(* the message as reassembled so far.                                       *)

ReadFail(e) == [err |-> e, close |-> TRUE, done |-> FALSE, msg |-> ZeroMessage]
ReadStep(done, m) == [err |-> NoErr, close |-> FALSE, done |-> done, msg |-> m]

\* the envelope checks without the one on the reserved bytes
envelopeOKReservedFree(payload) ==
    /\ Len(payload) >= 4
    /\ payload[2] = PayloadFormatOpaqueBytes
    /\ payload[1] \in {PayloadKindRequest, PayloadKindResponse, PayloadKindOneway}

\* the envelope checks of ReadNext on the payload of an opening payload frame
envelopeOK(payload) ==
    /\ Len(payload) >= 4
    /\ payload[3] * 256 + payload[4] = 0
    /\ payload[2] = PayloadFormatOpaqueBytes
    /\ payload[1] \in {PayloadKindRequest, PayloadKindResponse, PayloadKindOneway}

\* the Data ReadNext takes from the opening frame of a payload message
openingData(payload) == IF Len(payload) > 4 THEN SubSeq(payload, 5, Len(payload)) ELSE <<>>

\* readOpen taking a ping or pong whatever its stream_id, payload and flags
readOpenLaxPing(fr) ==
    IF ~HasStart(fr.flags) THEN ReadFail(ErrFragmentation)
    ELSE IF fr.typ \in {TypePing, TypePong}
    THEN ReadStep(TRUE, Message(fr.typ, 0, <<>>, 0, 0, <<>>))
    ELSE IF fr.typ \in AuthTypes /\ fr.streamID # 0 THEN ReadFail(ErrInvalidStreamID)
    ELSE IF fr.typ = TypeMessagePayload /\ fr.streamID = 0 THEN ReadFail(ErrInvalidStreamID)
    ELSE IF fr.typ = TypeMessagePayload
    THEN IF ~envelopeOK(fr.payload) THEN ReadFail(ErrEnvelope)
         ELSE ReadStep(HasEnd(fr.flags),
                       Message(TypeMessagePayload, fr.streamID, <<>>,
                               fr.payload[1], fr.payload[2], openingData(fr.payload)))
    ELSE ReadStep(HasEnd(fr.flags), Message(fr.typ, fr.streamID, fr.payload, 0, 0, <<>>))

readOpen(fr) ==
    IF ~HasStart(fr.flags) THEN ReadFail(ErrFragmentation)
    ELSE IF fr.typ \in {TypePing, TypePong}
    THEN IF fr.streamID # 0 \/ fr.payload # <<>> \/ fr.flags # startEndFlags
         THEN ReadFail(ErrProtocol)
         ELSE ReadStep(TRUE, Message(fr.typ, 0, <<>>, 0, 0, <<>>))
    ELSE IF fr.typ \in AuthTypes /\ fr.streamID # 0 THEN ReadFail(ErrInvalidStreamID)
    ELSE IF fr.typ = TypeMessagePayload /\ fr.streamID = 0 THEN ReadFail(ErrInvalidStreamID)
    ELSE IF fr.typ = TypeMessagePayload
    THEN IF ~envelopeOK(fr.payload) THEN ReadFail(ErrEnvelope)
         ELSE ReadStep(HasEnd(fr.flags),
                       Message(TypeMessagePayload, fr.streamID, <<>>,
                               fr.payload[1], fr.payload[2], openingData(fr.payload)))
    ELSE ReadStep(HasEnd(fr.flags), Message(fr.typ, fr.streamID, fr.payload, 0, 0, <<>>))

\* readCont without the comparison of the stream_id
readContAnyStream(msg, next) ==
    IF next.typ # msg.Type THEN ReadFail(ErrFragmentation)
    ELSE IF HasStart(next.flags) THEN ReadFail(ErrFragmentation)
    ELSE IF next.flags # 0 /\ next.flags # flagEnd THEN ReadFail(ErrFragmentation)
    ELSE IF msg.Type = TypeMessagePayload
    THEN ReadStep(HasEnd(next.flags), [msg EXCEPT !.Data = @ \o next.payload])
    ELSE ReadStep(HasEnd(next.flags), [msg EXCEPT !.Payload = @ \o next.payload])

readCont(msg, next) ==
    IF next.typ # msg.Type \/ next.streamID # msg.StreamID THEN ReadFail(ErrFragmentation)
    ELSE IF HasStart(next.flags) THEN ReadFail(ErrFragmentation)
    ELSE IF next.flags # 0 /\ next.flags # flagEnd THEN ReadFail(ErrFragmentation)
    ELSE IF msg.Type = TypeMessagePayload
    THEN ReadStep(HasEnd(next.flags), [msg EXCEPT !.Data = @ \o next.payload])
    ELSE ReadStep(HasEnd(next.flags), [msg EXCEPT !.Payload = @ \o next.payload])

\* decodeFrameFrom on a stream that holds exactly `bytes` and then ends:
\* [err, frame, rest]; io.ReadFull gives EOF on no byte, ErrUnexpectedEOF on some
decodeFrameFrom(bytes, maxPayload) ==
    LET short(bs) == IF bs = <<>> THEN ErrEOF ELSE ErrUnexpectedEOF
        fail(e, rest) == [err |-> e, frame |-> Frame(0, 0, 0, <<>>), rest |-> rest]
    IN  IF Len(bytes) < headerLen THEN fail(short(bytes), <<>>)
        ELSE LET h == decodeHeader(SubSeq(bytes, 1, headerLen), maxPayload)
                 body == Drop(bytes, headerLen)
             IN  IF h.err # NoErr THEN fail(h.err, body)
                 ELSE IF Len(body) < h.payloadLn THEN fail(short(body), <<>>)
                 ELSE [err |-> NoErr,
                       frame |-> Frame(h.typ, h.flags, h.streamID, Take(body, h.payloadLn)),
                       rest |-> Drop(body, h.payloadLn)]

\* ReadNext with a token that is never signalled, on a stream that holds `bytes`:
\* [err, msg, closed, rest]
RECURSIVE reassemble(_, _, _)
reassemble(msg, bytes, maxPayload) ==
    LET d == decodeFrameFrom(bytes, maxPayload)
        c == readCont(msg, d.frame)
    IN  IF d.err # NoErr
        THEN [err |-> d.err, msg |-> ZeroMessage, closed |-> isProtocolErr(d.err), rest |-> d.rest]
        ELSE IF c.err # NoErr
        THEN [err |-> c.err, msg |-> ZeroMessage, closed |-> c.close, rest |-> d.rest]
        ELSE IF c.done
        THEN [err |-> NoErr, msg |-> c.msg, closed |-> FALSE, rest |-> d.rest]
        ELSE reassemble(c.msg, d.rest, maxPayload)

ReadNextAll(bytes, maxPayload) ==
    LET d == decodeFrameFrom(bytes, maxPayload)
        o == readOpen(d.frame)
    IN  IF d.err # NoErr
        THEN [err |-> d.err, msg |-> ZeroMessage, closed |-> isProtocolErr(d.err), rest |-> d.rest]
        ELSE IF o.err # NoErr
        THEN [err |-> o.err, msg |-> ZeroMessage, closed |-> o.close, rest |-> d.rest]
        ELSE IF o.done
        THEN [err |-> NoErr, msg |-> o.msg, closed |-> FALSE, rest |-> d.rest]
        ELSE reassemble(o.msg, d.rest, maxPayload)

-----------------------------------------------------------------------------
(* State of a connection pair right after New(a), New(b) on the two ends of *)
(* a fresh transport: nothing written, no call in progress.                 *)

Senders == {"s1", "s2"}
Readers == {"r1", "r2"}
Tasks == Senders \cup Readers
\* context.Background(), a context.WithCancel token, a context.WithDeadline token
Tokens == {"bg", "tc", "td"}

IdleSend ==
    [pc |-> "idle", tok |-> "bg", id |-> 0, msg |-> ZeroMessage, writes |-> <<>>,
     wrote |-> 0, err |-> NoErr, ioErr |-> NoErr, sig |-> FALSE]

IdleRead ==
    [pc |-> "idle", tok |-> "bg", phase |-> "open", need |-> 0,
     hdr |-> Frame(0, 0, 0, <<>>), acc |-> ZeroMessage, msg |-> ZeroMessage,
     err |-> NoErr, ioErr |-> NoErr, sig |-> FALSE, proto |-> FALSE, closed |-> FALSE]

\* no handshake and no key store call in the runs of the framing layer
AuthOff == hs = [on |-> FALSE] /\ ks = [on |-> FALSE]

InitConn ==
    /\ wire = <<>>
    /\ ncClosed = FALSE
    /\ peerClosed = FALSE
    /\ rDeadline = "none"
    /\ wDeadline = "none"
    /\ readMu = "free"
    /\ writeMu = "free"
    /\ ctx = [t \in Tokens |-> [done |-> FALSE, err |-> NoErr, passed |-> FALSE]]
    /\ hook = [of |-> [t \in Tasks |-> "none"], pendR |-> 0, pendW |-> 0]
    /\ snd = [s \in Senders |-> IdleSend]
    /\ rcv = [r \in Readers |-> IdleRead]
    /\ log = [sent |-> <<>>, delivered |-> <<>>, writes |-> <<>>, calls |-> 0,
              reads |-> 0, raw |-> 0, clean |-> TRUE, cut |-> -1]

-----------------------------------------------------------------------------
(* Codec runs: Send followed by ReadNext on what it wrote, and              *)
(* decodeFrameFrom's header checks, on inputs drawn from bounded sets.      *)

DataBytes == {0, 83}
ByteStrings == UNION {[1..k -> DataBytes] : k \in 0..MaxDataLen}
StreamIDs == {1, 999}
Kinds == {PayloadKindRequest, PayloadKindResponse, PayloadKindOneway}

PayloadMessages ==
    {Message(TypeMessagePayload, sid, <<>>, k, PayloadFormatOpaqueBytes, d) :
        sid \in StreamIDs, k \in Kinds, d \in ByteStrings}
ValidMessages ==
    {Message(t, 0, <<>>, 0, 0, <<>>) : t \in {TypePing, TypePong}}
        \cup {Message(t, 0, p, 0, 0, <<>>) : t \in AuthTypes, p \in ByteStrings}
        \cup PayloadMessages

\* Send(msg) on one end, then ReadNext on the other end, both with max payload `max`
Deliver(msg, max) ==
    LET s == SendFrames(msg, max)
    IN  [sendErr |-> s.err, frames |-> Len(s.frames),
         got |-> ReadNextAll(Flatten(WritesOf(s.frames)), max)]

InitRT ==
    /\ arg \in [msg : ValidMessages]
    /\ maxFramePayload \in 1..MaxMaxPayload
    /\ res = [done |-> FALSE]
    /\ InitConn
    /\ AuthOff

RunRoundTrip ==
    /\ ~res.done
    /\ res' = [done |-> TRUE, a |-> Deliver(arg.msg, maxFramePayload)]
    /\ UNCHANGED <<arg, maxFramePayload>>
    /\ UNCHANGED <<connVars, authVars>>

SpecRT == InitRT /\ [][RunRoundTrip]_vars

InitFrag ==
    /\ arg \in [msg : PayloadMessages, max2 : 1..MaxMaxPayload]
    /\ maxFramePayload \in 1..MaxMaxPayload
    /\ res = [done |-> FALSE]
    /\ InitConn
    /\ AuthOff

RunTwoSizes ==
    /\ ~res.done
    /\ res' = [done |-> TRUE, a |-> Deliver(arg.msg, maxFramePayload),
               b |-> Deliver(arg.msg, arg.max2)]
    /\ UNCHANGED <<arg, maxFramePayload>>
    /\ UNCHANGED <<connVars, authVars>>

SpecFrag == InitFrag /\ [][RunTwoSizes]_vars

\* headers that violate any combination of the five criteria, or none
Headers ==
    {<<m0, m1, v, t>> \o fl \o PutUint(sid, 8) \o PutUint(ln, 4) :
        m0 \in {v1Magic0, 0}, m1 \in {v1Magic1, 83}, v \in {v1Version, 0, 2},
        t \in {TypeAuthBegin, TypeMessagePayload, TypePong, 0, 153},
        fl \in {<<0, 0>>, <<0, 1>>, <<0, 3>>, <<0, 4>>, <<0, 7>>, <<1, 2>>},
        sid \in {0, 1},
        ln \in {0, MaxMaxPayload - 1, MaxMaxPayload + 1, 65536}}

InitHdr ==
    /\ arg \in [hdr : Headers]
    /\ maxFramePayload \in 1..MaxMaxPayload
    /\ res = [done |-> FALSE]
    /\ InitConn
    /\ AuthOff

RunDecodeHeader ==
    /\ ~res.done
    /\ res' = [done |-> TRUE, h |-> decodeHeader(arg.hdr, maxFramePayload)]
    /\ UNCHANGED <<arg, maxFramePayload>>
    /\ UNCHANGED <<connVars, authVars>>

SpecHdr == InitHdr /\ [][RunDecodeHeader]_vars

-----------------------------------------------------------------------------
(* The connection pair as a state machine.  Sender tasks call Send on one   *)
(* end, reader tasks call ReadNext on the other; every transport operation  *)
(* (header write, payload write, header read, payload read) is one step.    *)

\* c.maxFramePayload of the connection pair
ConnMaxPayload == 5
\* Send calls, ReadNext calls and raw writes of the peer in one run
MaxSends == 2
MaxReads == 2
MaxRaw == 1

\* bytes i, i+1, ... of a given length (every byte differs from its neighbours)
Ramp(from, n) == [i \in 1..n |-> from + i]

\* messages the sender tasks send: one frame; START, END; START, 0, END; one frame
ConnMessages ==
    { Message(TypePing, 0, <<>>, 0, 0, <<>>),
      Message(TypeAuthBegin, 0, Ramp(100, maxFramePayload + 1), 0, 0, <<>>),
      Message(TypeMessagePayload, 1, <<>>, PayloadKindRequest, 0,
              Ramp(0, 2 * maxFramePayload - 3)),
      Message(TypeMessagePayload, 2, <<>>, PayloadKindOneway, 0, <<9>>) }

\* two of them: START, END; one frame
SomeMessages == {m \in ConnMessages : m.Type = TypeAuthBegin \/ m.StreamID = 2}

\* what a peer that bypasses Send may write: frames that violate the protocol
RawStreams ==
    { \* bad magic
      <<0, v1Magic1, v1Version, TypePing, 0, 3>> \o PutUint(0, 8) \o PutUint(0, 4),
      \* unknown type 0x99, START|END, empty payload
      Flatten(encodeFrameTo(153, startEndFlags, 0, <<>>)),
      \* an opening frame without START
      Flatten(encodeFrameTo(TypeAuthOK, flagEnd, 0, <<1>>)),
      \* a payload frame whose envelope has an undefined kind
      Flatten(encodeFrameTo(TypeMessagePayload, startEndFlags, 1, <<9, 0, 0, 0>>)),
      \* START of an auth message, continued by a frame of another type
      Flatten(encodeFrameTo(TypeAuthBegin, flagStart, 0, <<1>>))
          \o Flatten(encodeFrameTo(TypeAuthProof, flagEnd, 0, <<2>>)) }

\* a lock that never waits
CanLockAlways(mu) == TRUE

\* c.writeMu.Lock() and c.readMu.Lock() succeeding only with both mutexes free
CanLockBoth(mu) == readMu = "free" /\ writeMu = "free"

\* sync.Mutex.Lock returns once the mutex is free
CanLock(mu) == mu = "free"

\* a deadline of the endpoint has passed: "now" was set by a hook, "d" is the
\* token's deadline, reached once time has passed it
Expired(dl) == dl = "now" \/ (dl = "d" /\ ctx["td"].passed)

\* applyReadContext / applyWriteContext, first half: if d, ok := ctx.Deadline()
applyDeadline(tok, current) == IF tok = "td" THEN "d" ELSE current

\* a hook that is only armed, also on a token that is already done
afterFuncArmOnly(h, task, tok, dir) == [h EXCEPT !.of[task] = "armed"]

\* applyReadContext / applyWriteContext, second half: context.AfterFunc(ctx, f);
\* on a token that is already done f's goroutine is started at once
afterFunc(h, task, tok, dir) ==
    IF ctx[tok].done
    THEN IF dir = "r" THEN [h EXCEPT !.of[task] = "fired", !.pendR = @ + 1]
                      ELSE [h EXCEPT !.of[task] = "fired", !.pendW = @ + 1]
    ELSE [h EXCEPT !.of[task] = "armed"]

\* the deferred stop() of a call: an armed hook is removed, a started one is not
stopHook(h, task) == [h EXCEPT !.of[task] = "none"]

\* the deferred restore() of a call
restoreDeadline(dl) == "none"

\* the token is signalled: every hook armed on it starts its goroutine
fireHooks(h, tok) ==
    LET hitR == {r \in Readers : h.of[r] = "armed" /\ rcv[r].tok = tok}
        hitS == {t \in Senders : h.of[t] = "armed" /\ snd[t].tok = tok}
    IN  [of |-> [t \in Tasks |-> IF t \in hitR \cup hitS THEN "fired" ELSE h.of[t]],
         pendR |-> h.pendR + Cardinality(hitR),
         pendW |-> h.pendW + Cardinality(hitS)]

\* readFrame closing the endpoint on every error it returns as it is
readFrameCloseAlways(tokDone, tokErr, err) ==
    IF tokDone THEN [err |-> tokErr, close |-> FALSE]
    ELSE [err |-> err, close |-> TRUE]

\* readFrame's handling of an error of decodeFrameFrom: the error it returns and
\* whether it closes the endpoint
readFrame(tokDone, tokErr, err) ==
    IF tokDone THEN [err |-> tokErr, close |-> FALSE]
    ELSE [err |-> err, close |-> isProtocolErr(err)]

\* a run of the connection pair leaves the codec inputs and the configuration alone
Fixed == UNCHANGED <<arg, res, maxFramePayload, hs, ks>>

(* ---- Send ---- *)

SendBegin(s, m, tok) ==
    /\ snd[s].pc = "idle"
    /\ log.calls < MaxSends
    /\ snd' = [snd EXCEPT ![s] = [IdleSend EXCEPT !.pc = "lock", !.tok = tok, !.msg = m,
                                                 !.id = log.calls + 1]]
    /\ log' = [log EXCEPT !.calls = @ + 1]
    /\ Fixed
    /\ UNCHANGED <<wire, ncClosed, peerClosed, rDeadline, wDeadline, readMu, writeMu,
                   ctx, hook, rcv>>

\* c.writeMu.Lock(); applyWriteContext; the checks of Send's switch
SendLock(s) ==
    /\ snd[s].pc = "lock"
    /\ CanLock(writeMu)
    /\ writeMu' = s
    /\ wDeadline' = applyDeadline(snd[s].tok, wDeadline)
    /\ hook' = afterFunc(hook, s, snd[s].tok, "w")
    /\ LET plan == SendFrames(snd[s].msg, maxFramePayload)
       IN  snd' = [snd EXCEPT ![s].pc = IF plan.err = NoErr THEN "write" ELSE "ret",
                              ![s].err = plan.err,
                              ![s].writes = WritesOf(plan.frames)]
    /\ Fixed
    /\ UNCHANGED <<wire, ncClosed, peerClosed, rDeadline, readMu, ctx, rcv, log>>

\* one w.Write of encodeFrameTo succeeds
SendWrite(s) ==
    /\ snd[s].pc = "write"
    /\ ~Expired(wDeadline) /\ ~ncClosed /\ ~peerClosed
    /\ wire' = wire \o Head(snd[s].writes)
    /\ snd' = [snd EXCEPT ![s].writes = Tail(@), ![s].wrote = @ + 1,
                          ![s].pc = IF Len(snd[s].writes) = 1 THEN "ret" ELSE "write"]
    /\ log' = [log EXCEPT !.writes = Append(@, snd[s].id),
                          !.sent = IF snd[s].wrote = 0 THEN Append(@, snd[s].msg) ELSE @]
    /\ Fixed
    /\ UNCHANGED <<ncClosed, peerClosed, rDeadline, wDeadline, readMu, writeMu, ctx,
                   hook, rcv>>

\* one w.Write of encodeFrameTo fails; Send returns the error as it is
SendWriteFail(s) ==
    /\ snd[s].pc = "write"
    /\ Expired(wDeadline) \/ ncClosed \/ peerClosed
    /\ LET e == IF ncClosed \/ peerClosed THEN ErrClosed ELSE ErrTimeout
       IN  snd' = [snd EXCEPT ![s].pc = "ret", ![s].err = e, ![s].ioErr = e,
                              ![s].sig = ctx[snd[s].tok].done]
    /\ log' = [log EXCEPT !.clean = @ /\ snd[s].wrote = 0]
    /\ Fixed
    /\ UNCHANGED <<wire, ncClosed, peerClosed, rDeadline, wDeadline, readMu, writeMu,
                   ctx, hook, rcv>>

\* Send returns: stop(), restore(), c.writeMu.Unlock()
SendReturn(s) ==
    /\ snd[s].pc = "ret"
    /\ hook' = stopHook(hook, s)
    /\ wDeadline' = restoreDeadline(wDeadline)
    /\ writeMu' = "free"
    /\ snd' = [snd EXCEPT ![s] = IdleSend]
    /\ Fixed
    /\ UNCHANGED <<wire, ncClosed, peerClosed, rDeadline, readMu, ctx, rcv, log>>

(* ---- ReadNext ---- *)

ReadBegin(r, tok) ==
    /\ rcv[r].pc = "idle"
    /\ log.reads < MaxReads
    /\ rcv' = [rcv EXCEPT ![r] = [IdleRead EXCEPT !.pc = "lock", !.tok = tok]]
    /\ log' = [log EXCEPT !.reads = @ + 1]
    /\ Fixed
    /\ UNCHANGED <<wire, ncClosed, peerClosed, rDeadline, wDeadline, readMu, writeMu,
                   ctx, hook, snd>>

\* c.readMu.Lock(); applyReadContext
ReadLock(r) ==
    /\ rcv[r].pc = "lock"
    /\ CanLock(readMu)
    /\ readMu' = r
    /\ rDeadline' = applyDeadline(rcv[r].tok, rDeadline)
    /\ hook' = afterFunc(hook, r, rcv[r].tok, "r")
    /\ rcv' = [rcv EXCEPT ![r].pc = "hdr"]
    /\ Fixed
    /\ UNCHANGED <<wire, ncClosed, peerClosed, wDeadline, writeMu, ctx, snd, log>>

\* what ReadNext does with a frame readFrame returned: the reader's next state
\* and whether the endpoint gets closed
onFrame(rc, fr) ==
    LET o == IF rc.phase = "open" THEN readOpen(fr) ELSE readCont(rc.acc, fr)
    IN  IF o.err # NoErr
        THEN [rc EXCEPT !.pc = "ret", !.err = o.err, !.proto = TRUE, !.closed = o.close]
        ELSE IF o.done
        THEN [rc EXCEPT !.pc = "ret", !.msg = o.msg]
        ELSE [rc EXCEPT !.pc = "hdr", !.phase = "cont", !.acc = o.msg]

\* readFrame returned an error e of decodeFrameFrom
onFrameErr(rc, e, io) ==
    LET f == readFrame(ctx[rc.tok].done, ctx[rc.tok].err, e)
    IN  [rc EXCEPT !.pc = "ret", !.err = f.err, !.closed = f.close,
                   !.proto = isProtocolErr(e),
                   !.ioErr = IF io THEN e ELSE NoErr,
                   !.sig = ctx[rc.tok].done]

\* io.ReadFull of the 18 header bytes succeeds; the header checks
ReadHeader(r) ==
    /\ rcv[r].pc = "hdr"
    /\ Len(wire) >= headerLen
    /\ ~Expired(rDeadline) /\ ~ncClosed
    /\ wire' = Drop(wire, headerLen)
    /\ LET h == decodeHeader(Take(wire, headerLen), maxFramePayload)
           fr == Frame(h.typ, h.flags, h.streamID, <<>>)
           next == IF h.err # NoErr THEN onFrameErr(rcv[r], h.err, FALSE)
                   ELSE IF h.payloadLn > 0
                   THEN [rcv[r] EXCEPT !.pc = "body", !.hdr = fr, !.need = h.payloadLn]
                   ELSE onFrame(rcv[r], fr)
       IN  /\ rcv' = [rcv EXCEPT ![r] = next]
           /\ ncClosed' = (ncClosed \/ next.closed)
    /\ Fixed
    /\ UNCHANGED <<peerClosed, rDeadline, wDeadline, readMu, writeMu, ctx, hook, snd, log>>

\* io.ReadFull of the payload succeeds
ReadPayload(r) ==
    /\ rcv[r].pc = "body"
    /\ Len(wire) >= rcv[r].need
    /\ ~Expired(rDeadline) /\ ~ncClosed
    /\ wire' = Drop(wire, rcv[r].need)
    /\ LET next == onFrame(rcv[r], [rcv[r].hdr EXCEPT !.payload = Take(wire, rcv[r].need)])
       IN  /\ rcv' = [rcv EXCEPT ![r] = next]
           /\ ncClosed' = (ncClosed \/ next.closed)
    /\ Fixed
    /\ UNCHANGED <<peerClosed, rDeadline, wDeadline, readMu, writeMu, ctx, hook, snd, log>>

\* io.ReadFull fails: the endpoint is closed, its deadline has passed, or the
\* peer has closed and too few bytes are left.  ReadFull has consumed the
\* bytes that were there when the stream ended, and may have when it timed out.
ReadIOFail(r) ==
    /\ rcv[r].pc \in {"hdr", "body"}
    /\ LET need == IF rcv[r].pc = "hdr" THEN headerLen ELSE rcv[r].need
           short == Len(wire) < need
       IN  \E out \in
               { [e |-> ErrClosed, eat |-> 0] : x \in {1} \cap {IF ncClosed THEN 1 ELSE 0} }
               \cup { [e |-> ErrTimeout, eat |-> n] :
                        n \in IF ~ncClosed /\ Expired(rDeadline)
                              THEN {0} \cup (IF short THEN {Len(wire)} ELSE {})
                              ELSE {} }
               \cup { [e |-> IF wire = <<>> THEN ErrEOF ELSE ErrUnexpectedEOF,
                       eat |-> Len(wire)] :
                        x \in {1} \cap {IF ~ncClosed /\ peerClosed /\ short THEN 1 ELSE 0} } :
               /\ wire' = Drop(wire, out.eat)
               /\ rcv' = [rcv EXCEPT ![r] = onFrameErr(rcv[r], out.e, TRUE)]
    /\ Fixed
    /\ UNCHANGED <<ncClosed, peerClosed, rDeadline, wDeadline, readMu, writeMu, ctx,
                   hook, snd, log>>

\* the call returns a cancellation or I/O error from its reassembly loop: it
\* has consumed the opening frame of a message and not the last
CutShort(rc) == rc.phase = "cont" /\ rc.err # NoErr /\ ~rc.proto

\* ReadNext returns: stop(), restore(), c.readMu.Unlock()
ReadReturn(r) ==
    /\ rcv[r].pc = "ret"
    /\ hook' = stopHook(hook, r)
    /\ rDeadline' = restoreDeadline(rDeadline)
    /\ readMu' = "free"
    /\ log' = [log EXCEPT !.delivered = IF rcv[r].err = NoErr THEN Append(@, rcv[r].msg) ELSE @,
                          !.clean = @ /\ rcv[r].err = NoErr,
                          !.cut = IF @ = -1 /\ CutShort(rcv[r]) THEN Len(log.delivered) ELSE @]
    /\ rcv' = [rcv EXCEPT ![r] = IdleRead]
    /\ Fixed
    /\ UNCHANGED <<wire, ncClosed, peerClosed, wDeadline, writeMu, ctx, snd>>

(* ---- tokens, hooks and the peer ---- *)

\* cancel() of the WithCancel token
Cancel ==
    /\ "tc" \in arg.tokens
    /\ ~ctx["tc"].done
    /\ ctx' = [ctx EXCEPT !["tc"].done = TRUE, !["tc"].err = ErrCanceled]
    /\ hook' = fireHooks(hook, "tc")
    /\ Fixed
    /\ UNCHANGED <<wire, ncClosed, peerClosed, rDeadline, wDeadline, readMu, writeMu,
                   snd, rcv, log>>

\* the deadline of the WithDeadline token is reached
TimePasses ==
    /\ "td" \in arg.tokens
    /\ ~ctx["td"].passed
    /\ ctx' = [ctx EXCEPT !["td"].passed = TRUE]
    /\ Fixed
    /\ UNCHANGED <<wire, ncClosed, peerClosed, rDeadline, wDeadline, readMu, writeMu,
                   hook, snd, rcv, log>>

\* the timer of the WithDeadline token fires
CtxTimer ==
    /\ ctx["td"].passed /\ ~ctx["td"].done
    /\ ctx' = [ctx EXCEPT !["td"].done = TRUE, !["td"].err = ErrCtxDeadline]
    /\ hook' = fireHooks(hook, "td")
    /\ Fixed
    /\ UNCHANGED <<wire, ncClosed, peerClosed, rDeadline, wDeadline, readMu, writeMu,
                   snd, rcv, log>>

\* the goroutine of a read hook runs: c.nc.SetReadDeadline(time.Now())
HookRunR ==
    /\ hook.pendR > 0
    /\ hook' = [hook EXCEPT !.pendR = @ - 1]
    /\ rDeadline' = "now"
    /\ Fixed
    /\ UNCHANGED <<wire, ncClosed, peerClosed, wDeadline, readMu, writeMu, ctx, snd,
                   rcv, log>>

\* the goroutine of a write hook runs: c.nc.SetWriteDeadline(time.Now())
HookRunW ==
    /\ hook.pendW > 0
    /\ hook' = [hook EXCEPT !.pendW = @ - 1]
    /\ wDeadline' = "now"
    /\ Fixed
    /\ UNCHANGED <<wire, ncClosed, peerClosed, rDeadline, readMu, writeMu, ctx, snd,
                   rcv, log>>

\* the peer writes raw bytes to its endpoint, between two Send calls
RawWrite(bytes) ==
    /\ log.raw < MaxRaw
    /\ writeMu = "free"
    /\ ~ncClosed /\ ~peerClosed
    /\ wire' = wire \o bytes
    /\ log' = [log EXCEPT !.raw = @ + 1, !.clean = FALSE]
    /\ Fixed
    /\ UNCHANGED <<ncClosed, peerClosed, rDeadline, wDeadline, readMu, writeMu, ctx,
                   hook, snd, rcv>>

\* the peer closes its endpoint
PeerClose ==
    /\ ~peerClosed
    /\ peerClosed' = TRUE
    /\ Fixed
    /\ UNCHANGED <<wire, ncClosed, rDeadline, wDeadline, readMu, writeMu, ctx, hook,
                   snd, rcv, log>>

\* a run is set up by who takes part: the tasks that send, the tasks that
\* receive, the tokens the calls are made with and the messages sent
Scenario(S, R, T, M) == [senders |-> S, readers |-> R, tokens |-> T, msgs |-> M]

InitScenario(sc) ==
    /\ maxFramePayload = ConnMaxPayload
    /\ arg = sc
    /\ res = [done |-> FALSE]
    /\ InitConn
    /\ AuthOff

\* the steps of the Send and ReadNext calls
Calls ==
    \/ \E s \in arg.senders, m \in arg.msgs, tok \in arg.tokens : SendBegin(s, m, tok)
    \/ \E s \in arg.senders : SendLock(s)
    \/ \E s \in arg.senders : SendWrite(s)
    \/ \E s \in arg.senders : SendWriteFail(s)
    \/ \E s \in arg.senders : SendReturn(s)
    \/ \E r \in arg.readers, tok \in arg.tokens : ReadBegin(r, tok)
    \/ \E r \in arg.readers : ReadLock(r)
    \/ \E r \in arg.readers : ReadHeader(r)
    \/ \E r \in arg.readers : ReadPayload(r)
    \/ \E r \in arg.readers : ReadIOFail(r)
    \/ \E r \in arg.readers : ReadReturn(r)

\* one sender, one reader, calls with and without a cancellable token, a peer
\* that may also write malformed frames and close
Init == InitScenario(Scenario({"s1"}, {"r1"}, {"bg", "tc"}, SomeMessages))

Next ==
    \/ Calls
    \/ Cancel
    \/ HookRunR
    \/ HookRunW
    \/ \E bytes \in RawStreams : RawWrite(bytes)
    \/ PeerClose

Spec == Init /\ [][Next]_vars

\* two senders and one reader on a peer that only uses Send
InitOrder == InitScenario(Scenario({"s1", "s2"}, {"r1"}, {"bg", "tc"}, ConnMessages))

NextOrder ==
    \/ Calls
    \/ Cancel
    \/ HookRunR
    \/ HookRunW

SpecOrder == InitOrder /\ [][NextOrder]_vars

\* what a peer leaves on the wire before it goes silent: nothing more than the
\* header of a frame, or the opening frame of a message without its rest
PartialStreams ==
    { frameHeader(TypeAuthBegin, startEndFlags, 0, <<1, 2>>),
      Flatten(encodeFrameTo(TypeMessagePayload, flagStart, 1, <<PayloadKindRequest, 0, 0, 0, 7>>)) }

\* the peer writes part of a message before any ReadNext is called
PartialWrite(bytes) ==
    /\ log.raw < MaxRaw
    /\ log.reads = 0
    /\ wire' = wire \o bytes
    /\ log' = [log EXCEPT !.raw = @ + 1, !.clean = FALSE]
    /\ Fixed
    /\ UNCHANGED <<ncClosed, peerClosed, rDeadline, wDeadline, readMu, writeMu, ctx,
                   hook, snd, rcv>>

\* one reader on a silent peer, calls with a cancellable token and a token
\* with a deadline
InitLive == InitScenario(Scenario({}, {"r1"}, {"tc", "td"}, {}))

ReadSteps ==
    \/ \E r \in arg.readers, tok \in arg.tokens : ReadBegin(r, tok)
    \/ \E r \in arg.readers : ReadLock(r)
    \/ \E r \in arg.readers : ReadHeader(r)
    \/ \E r \in arg.readers : ReadPayload(r)
    \/ \E r \in arg.readers : ReadIOFail(r)
    \/ \E r \in arg.readers : ReadReturn(r)

NextLive ==
    \/ ReadSteps
    \/ Cancel
    \/ TimePasses
    \/ CtxTimer
    \/ HookRunR
    \/ \E bytes \in PartialStreams : PartialWrite(bytes)

\* the scheduler runs every goroutine that can run: the hook's goroutine, and
\* the reader's whenever its transport read can return or it can go on
SpecLive ==
    /\ InitLive
    /\ [][NextLive]_vars
    /\ WF_vars(HookRunR)
    /\ \A r \in Readers :
        /\ WF_vars(ReadLock(r))
        /\ WF_vars(ReadHeader(r))
        /\ WF_vars(ReadPayload(r))
        /\ WF_vars(ReadIOFail(r))
        /\ WF_vars(ReadReturn(r))

\* two tasks call ReadNext on the same connection, with and without a
\* cancellable token, while the peer's Send calls, none of them cancelled,
\* send a message of two frames, a message of one frame whose payload is as
\* long as a frame header and reads as the frame of a ping, and a message of
\* two frames whose second payload reads as the frame of a pong.  The frames
\* may carry a header's length of payload.
ReaderMessages ==
    { Message(TypeAuthBegin, 0, Ramp(100, maxFramePayload + 1), 0, 0, <<>>),
      Message(TypeAuthProof, 0, frameHeader(TypePing, startEndFlags, 0, <<>>), 0, 0, <<>>),
      Message(TypeAuthOK, 0,
              Ramp(100, maxFramePayload) \o frameHeader(TypePong, startEndFlags, 0, <<>>),
              0, 0, <<>>) }

InitReaders ==
    /\ maxFramePayload = headerLen
    /\ arg = Scenario({"s1"}, {"r1", "r2"}, {"bg", "tc"}, ReaderMessages)
    /\ res = [done |-> FALSE]
    /\ InitConn
    /\ AuthOff

NextReaders ==
    \/ \E s \in arg.senders, m \in arg.msgs : SendBegin(s, m, "bg")
    \/ \E s \in arg.senders : SendLock(s)
    \/ \E s \in arg.senders : SendWrite(s)
    \/ \E s \in arg.senders : SendWriteFail(s)
    \/ \E s \in arg.senders : SendReturn(s)
    \/ ReadSteps
    \/ Cancel
    \/ HookRunR

SpecReaders == InitReaders /\ [][NextReaders]_vars

\* one task sends, one Send call after the other, with and without a
\* cancellable token; one task receives and is never cancelled
InitSplice == InitScenario(Scenario({"s1"}, {"r1"}, {"bg", "tc"}, ConnMessages))

NextSplice ==
    \/ \E s \in arg.senders, m \in arg.msgs, tok \in arg.tokens : SendBegin(s, m, tok)
    \/ \E s \in arg.senders : SendLock(s)
    \/ \E s \in arg.senders : SendWrite(s)
    \/ \E s \in arg.senders : SendWriteFail(s)
    \/ \E s \in arg.senders : SendReturn(s)
    \/ \E r \in arg.readers : ReadBegin(r, "bg")
    \/ \E r \in arg.readers : ReadLock(r)
    \/ \E r \in arg.readers : ReadHeader(r)
    \/ \E r \in arg.readers : ReadPayload(r)
    \/ \E r \in arg.readers : ReadIOFail(r)
    \/ \E r \in arg.readers : ReadReturn(r)
    \/ Cancel
    \/ HookRunW

SpecSplice == InitSplice /\ [][NextSplice]_vars

-----------------------------------------------------------------------------
(* The auth handshake (package auth): AuthenticateAsClient and              *)
(* WaitForAgentAuthentication over one connection.  The framing layer is    *)
(* taken at the level of logical messages: Conn.Send puts one message in    *)
(* flight, Conn.ReadNext takes the next one.  Keys, digests and signatures  *)
(* are symbolic: a signature records the private key and the string it was  *)
(* made over, and verifies under the matching public key over that string   *)
(* only.                                                                    *)

\* challengeTTL, in clock ticks (30 s in the program, 1 ms in its tests)
ChallengeTTL == 2
\* the server clock runs from 0 to MaxClock
MaxClock == 4
\* messages a peer that is not this program sends in one run
MaxPeerSends == 2

authVersion == 1

\* Ed25519 key pairs by name; "P0" is a registry entry of the wrong length
Keys == {"K1", "K2"}
Public(k) == IF k = "K1" THEN "P1" ELSE "P2"
PublicKeys == {"P0", "P1", "P2"}

\* agentIDFromPublicKey: hex(sha256(pub)), an error unless pub has 32 bytes
agentIDFromPublicKey(pub) ==
    IF pub = "P0" THEN [err |-> TRUE, id |-> ""]
    ELSE [err |-> FALSE, id |-> IF pub = "P1" THEN "A1" ELSE "A2"]

\* stringToSignV1: the four values, each on its own "name=value\n" line
stringToSignV1(agentID, challengeID, nonce, issuedAtMS) ==
    <<"switchboard-auth-v1", agentID, challengeID, nonce, issuedAtMS>>

\* ed25519.Sign, and 64 bytes that are no signature of anything
Sign(k, str) == [len |-> 64, by |-> k, over |-> str]
RandomSig == [len |-> 64, by |-> "", over |-> <<>>]
ShortSig == [len |-> 0, by |-> "", over |-> <<>>]

\* a verification that does not look at the key
VerifyAnyKey(pub, str, sig) == sig.by \in Keys /\ sig.over = str

\* ed25519.Verify(pub, message, sig)
Verify(pub, str, sig) == sig.by \in Keys /\ Public(sig.by) = pub /\ sig.over = str

\* a decoder for another alphabet or padding than the encoder's
b64DecodeOther(text) == [err |-> TRUE, raw |-> text.raw]

\* b64Encode / b64Decode of a signature; text that is not base64url
b64Encode(sig) == [b64 |-> TRUE, raw |-> sig]
NotBase64 == [b64 |-> FALSE, raw |-> ShortSig]
b64Decode(text) == [err |-> ~text.b64, raw |-> text.raw]

\* the fields of the five JSON messages (part_001: authBegin .. authError)
StructFields ==
    [auth_begin |-> {"type", "v", "agent_id", "client_time_ms"},
     auth_challenge |-> {"type", "v", "challenge_id", "nonce", "issued_at_ms",
                         "expires_at_ms"},
     auth_proof |-> {"type", "v", "agent_id", "challenge_id", "nonce", "issued_at_ms",
                     "signature"},
     auth_ok |-> {"type", "v", "agent_id", "authenticated_at_ms"},
     auth_error |-> {"type", "v", "code", "message"}]

\* the zero value of a field's Go type
ZeroOf(k) ==
    IF k \in {"v", "client_time_ms", "issued_at_ms", "expires_at_ms", "authenticated_at_ms"}
    THEN 0
    ELSE IF k = "signature" THEN b64Encode(ShortSig)
    ELSE ""

OmitEmpty == {"client_time_ms", "message"}

\* mustMarshalJSON: the JSON object of a struct, omitempty fields left out
\* when zero
mustMarshalJSON(st) ==
    [form |-> "json",
     f |-> [k \in {x \in DOMAIN st : ~(x \in OmitEmpty /\ st[x] = ZeroOf(x))} |-> st[k]]]

\* payloads that are no JSON object
EmptyPayload == [form |-> "empty", f |-> <<>>]
GarbagePayload == [form |-> "garbage", f |-> <<>>]

\* unmarshalAndValidate without the check of v
unmarshalAnyVersion(payload, wantType) ==
    LET get(k) == IF k \in DOMAIN payload.f THEN payload.f[k] ELSE ZeroOf(k)
        bad == [err |-> TRUE, v |-> [k \in StructFields[wantType] |-> ZeroOf(k)]]
    IN  IF payload.form # "json" THEN bad
        ELSE IF get("type") # wantType THEN bad
        ELSE [err |-> FALSE, v |-> [k \in StructFields[wantType] |-> get(k)]]

\* unmarshalAndValidate[T](payload, wantType): the struct T filled from the
\* object's fields (absent ones zero, unknown ones ignored), after the checks
\* of type and v
unmarshalAndValidate(payload, wantType) ==
    LET get(k) == IF k \in DOMAIN payload.f THEN payload.f[k] ELSE ZeroOf(k)
        bad == [err |-> TRUE, v |-> [k \in StructFields[wantType] |-> ZeroOf(k)]]
    IN  IF payload.form # "json" THEN bad
        ELSE IF get("type") # wantType THEN bad
        ELSE IF get("v") # authVersion THEN bad
        ELSE [err |-> FALSE, v |-> [k \in StructFields[wantType] |-> get(k)]]

\* the frame type of each JSON message
TypeOf ==
    [auth_begin |-> TypeAuthBegin, auth_challenge |-> TypeAuthChallenge,
     auth_proof |-> TypeAuthProof, auth_ok |-> TypeAuthOK, auth_error |-> TypeAuthError]

\* protocol.Message{Type: typ, Payload: payload} as sendAuth sends it
AuthMessage(typ, payload) == [typ |-> typ, payload |-> payload]

(* ---- the transport under the handshake ---- *)

\* a frame ReadNext rejects with a protocol error (it closes the endpoint)
BadFrame == AuthMessage(0, EmptyPayload)

\* reads without a deadline: with nothing in flight and the other end open,
\* the read does not return
ReadOutcomesNoDeadline(queue, peerGone) ==
    IF queue # <<>>
    THEN {[err |-> IF Head(queue) = BadFrame THEN "protocol" ELSE "", msg |-> Head(queue)]}
    ELSE {[err |-> "eof", msg |-> BadFrame] : x \in {1} \cap {IF peerGone THEN 1 ELSE 0}}

\* what a readNextWithTimeout can return on an endpoint: the next message in
\* flight; a protocol error on a malformed frame; or, with nothing in flight,
\* EOF once the other end has closed and a timeout when timeouts may happen
ReadOutcomes(queue, peerGone) ==
    IF queue # <<>>
    THEN {[err |-> IF Head(queue) = BadFrame THEN "protocol" ELSE "", msg |-> Head(queue)]}
    ELSE {[err |-> "eof", msg |-> BadFrame] : x \in {1} \cap {IF peerGone THEN 1 ELSE 0}}
         \cup {[err |-> "timeout", msg |-> BadFrame] :
                  x \in {1} \cap {IF arg.faults THEN 1 ELSE 0}}

\* what a sendAuth can return: nil (the message is in flight, or lost when the
\* other end has closed), an error when the other end has closed, a timeout
\* when timeouts may happen
SendOutcomes(peerGone) ==
    {""} \cup (IF peerGone THEN {"closed"} ELSE {})
         \cup (IF arg.faults THEN {"timeout"} ELSE {})

\* the queue after a send with outcome e
Sent(queue, m, e, peerGone) ==
    IF e = "" /\ ~peerGone THEN Append(queue, m) ELSE queue

(* ---- WaitForAgentAuthentication ---- *)

NoChallenge == [challenge_id |-> "", nonce |-> "", issued_at_ms |-> 0, expires_at_ms |-> 0]

\* the server's locals: agentID, pub, ch, the proof as unmarshalled and the
\* clock value its freshness was checked at (-1: no proof yet), the code and
\* message for failAuth, the value returned, and what it did so far
IdleServer ==
    [pc |-> "off", agentID |-> "", pub |-> "none", ch |-> NoChallenge,
     proof |-> unmarshalAndValidate(EmptyPayload, "auth_proof"), at |-> -1,
     code |-> "", message |-> "", ret |-> "none", ev |-> <<>>]

\* strings.TrimSpace(s) == ""
Blank(s) == s \in {"", " "}

\* onBegin without the comparison of the claimed agent id with the one
\* derived from the registry's key
onBeginTrustRegistry(payload, registry, now, id, nonce) ==
    LET begin == unmarshalAndValidate(payload, "auth_begin")
        agentID == begin.v.agent_id
        pub == IF agentID \in DOMAIN registry THEN registry[agentID] ELSE "none"
        expected == agentIDFromPublicKey(pub)
        out(to, code, message) ==
            [to |-> to, code |-> code, message |-> message, agentID |-> agentID,
             pub |-> pub, ch |-> NoChallenge]
    IN  IF begin.err THEN out("close", "", "")
        ELSE IF Blank(agentID) THEN out("fail", "protocol_error", "missing agent_id")
        ELSE IF pub = "none" THEN out("fail", "unknown_agent", "")
        ELSE IF expected.err THEN out("fail", "internal_error", "invalid configured public key")
        ELSE [out("challenge", "", "") EXCEPT
                 !.ch = [challenge_id |-> id, nonce |-> nonce, issued_at_ms |-> now,
                         expires_at_ms |-> now + ChallengeTTL]]

\* the server's handling of the auth_begin payload up to the challenge it mints:
\* where it goes next ("close": close and return the error; "fail": failAuth;
\* "challenge": send the challenge)
onBegin(payload, registry, now, id, nonce) ==
    LET begin == unmarshalAndValidate(payload, "auth_begin")
        agentID == begin.v.agent_id
        pub == IF agentID \in DOMAIN registry THEN registry[agentID] ELSE "none"
        expected == agentIDFromPublicKey(pub)
        out(to, code, message) ==
            [to |-> to, code |-> code, message |-> message, agentID |-> agentID,
             pub |-> pub, ch |-> NoChallenge]
    IN  IF begin.err THEN out("close", "", "")
        ELSE IF Blank(agentID) THEN out("fail", "protocol_error", "missing agent_id")
        ELSE IF pub = "none" THEN out("fail", "unknown_agent", "")
        ELSE IF expected.err THEN out("fail", "internal_error", "invalid configured public key")
        ELSE IF agentID # expected.id THEN out("fail", "unknown_agent", "")
        ELSE [out("challenge", "", "") EXCEPT
                 !.ch = [challenge_id |-> id, nonce |-> nonce, issued_at_ms |-> now,
                         expires_at_ms |-> now + ChallengeTTL]]

\* a freshness check that rejects at expires_at_ms already
staleAtExpiry(now, expiresAt) == now >= expiresAt

\* the freshness check: nowMS() > ch.ExpiresAtMS
stale(now, expiresAt) == now > expiresAt

\* onProof with the freshness check ahead of the challenge binding
onProofFreshnessFirst(payload, agentID, pub, ch, now) ==
    LET u == unmarshalAndValidate(payload, "auth_proof")
        proof == u.v
        sig == b64Decode(proof.signature)
        toVerify == stringToSignV1(agentID, proof.challenge_id, proof.nonce,
                                   proof.issued_at_ms)
        out(code, message) == [code |-> code, message |-> message]
    IN  IF u.err THEN out("protocol_error", "invalid auth_proof")
        ELSE IF proof.agent_id # agentID THEN out("protocol_error", "agent_id mismatch")
        ELSE IF stale(now, ch.expires_at_ms) THEN out("expired_challenge", "")
        ELSE IF \/ proof.challenge_id # ch.challenge_id
                \/ proof.nonce # ch.nonce
                \/ proof.issued_at_ms # ch.issued_at_ms
        THEN out("replayed_challenge", "")
        ELSE IF sig.err \/ sig.raw.len # 64 THEN out("bad_signature", "")
        ELSE IF ~Verify(pub, toVerify, sig.raw) THEN out("bad_signature", "")
        ELSE out("", "")

\* the server's checks of the auth_proof payload: "" when it accepts, else the
\* code and message it gives failAuth
onProof(payload, agentID, pub, ch, now) ==
    LET u == unmarshalAndValidate(payload, "auth_proof")
        proof == u.v
        sig == b64Decode(proof.signature)
        toVerify == stringToSignV1(agentID, proof.challenge_id, proof.nonce,
                                   proof.issued_at_ms)
        out(code, message) == [code |-> code, message |-> message]
    IN  IF u.err THEN out("protocol_error", "invalid auth_proof")
        ELSE IF proof.agent_id # agentID THEN out("protocol_error", "agent_id mismatch")
        ELSE IF \/ proof.challenge_id # ch.challenge_id
                \/ proof.nonce # ch.nonce
                \/ proof.issued_at_ms # ch.issued_at_ms
        THEN out("replayed_challenge", "")
        ELSE IF stale(now, ch.expires_at_ms) THEN out("expired_challenge", "")
        ELSE IF sig.err \/ sig.raw.len # 64 THEN out("bad_signature", "")
        ELSE IF ~Verify(pub, toVerify, sig.raw) THEN out("bad_signature", "")
        ELSE out("", "")

\* one thing the server did: a message received or sent (with the result of
\* the send), the endpoint closed, the return
Ev(op, typ, what) == [op |-> op, typ |-> typ, what |-> what]

\* failAuth sending the auth_error once more when the send failed
failAuthRetry(code, message, sendErr) ==
    (IF sendErr # "" THEN <<Ev("send", TypeAuthError, sendErr)>> ELSE <<>>)
        \o <<Ev("send", TypeAuthError, sendErr), Ev("close", 0, ""), Ev("return", 0, code)>>

\* failAuth: send auth_error best-effort, close, return the failure
failAuth(code, message, sendErr) ==
    <<Ev("send", TypeAuthError, sendErr), Ev("close", 0, ""), Ev("return", 0, code)>>

\* the auth_error payload failAuth sends
ErrorPayload(code, message) ==
    mustMarshalJSON([type |-> "auth_error", v |-> authVersion, code |-> code,
                     message |-> message])

\* readAuth(connection, TypeAuthBegin / TypeAuthProof) and what follows it up
\* to the next send
ServerRecv ==
    /\ hs.srv.pc \in {"begin", "proof"}
    /\ \E o \in ReadOutcomes(hs.c2s, hs.closed.cli), id \in {"c1"}, nonce \in {"n1"} :
        LET srv == hs.srv
            want == IF srv.pc = "begin" THEN TypeAuthBegin ELSE TypeAuthProof
            wrongType == o.err = "" /\ o.msg.typ # want
            failed == o.err # "" \/ wrongType
            b == onBegin(o.msg.payload, arg.registry, hs.now, id, nonce)
            p == onProof(o.msg.payload, srv.agentID, srv.pub, srv.ch, hs.now)
            jsonBad == ~failed /\ srv.pc = "begin" /\ b.to = "close"
            closes == \/ o.err = "protocol" \/ wrongType \/ jsonBad
                      \/ (failed /\ srv.pc = "proof")
            got == IF o.err \in {"", "protocol"}
                   THEN <<Ev("recv", o.msg.typ, o.err)>> ELSE <<>>
            quit(why) ==
                [srv EXCEPT !.pc = "done", !.ret = why,
                            !.ev = @ \o got
                                     \o (IF closes THEN <<Ev("close", 0, "")>> ELSE <<>>)
                                     \o <<Ev("return", 0, why)>>]
            next ==
                IF failed THEN quit(IF wrongType THEN "type" ELSE o.err)
                ELSE IF jsonBad THEN quit("json")
                ELSE IF srv.pc = "begin"
                THEN [srv EXCEPT !.pc = b.to, !.agentID = b.agentID, !.pub = b.pub,
                                 !.ch = b.ch, !.code = b.code, !.message = b.message,
                                 !.ev = @ \o got]
                ELSE [srv EXCEPT !.pc = IF p.code = "" THEN "ok" ELSE "fail",
                                 !.proof = unmarshalAndValidate(o.msg.payload, "auth_proof"),
                                 !.at = hs.now,
                                 !.code = p.code, !.message = p.message, !.ev = @ \o got]
        IN  hs' = [hs EXCEPT !.srv = next,
                             !.c2s = IF o.err \in {"", "protocol"} THEN Tail(@) ELSE @,
                             !.closed.srv = @ \/ closes]
    /\ UNCHANGED <<arg, res, maxFramePayload, ks, connVars>>

\* sendAuth of the auth_challenge, and of the auth_ok
ServerSend ==
    /\ hs.srv.pc \in {"challenge", "ok"}
    /\ \E e \in SendOutcomes(hs.closed.cli) :
        LET srv == hs.srv
            kind == IF srv.pc = "challenge" THEN "auth_challenge" ELSE "auth_ok"
            payload ==
                IF srv.pc = "challenge"
                THEN mustMarshalJSON([type |-> "auth_challenge", v |-> authVersion,
                                      challenge_id |-> srv.ch.challenge_id,
                                      nonce |-> srv.ch.nonce,
                                      issued_at_ms |-> srv.ch.issued_at_ms,
                                      expires_at_ms |-> srv.ch.expires_at_ms])
                ELSE mustMarshalJSON([type |-> "auth_ok", v |-> authVersion,
                                      agent_id |-> srv.agentID,
                                      authenticated_at_ms |-> hs.now])
            sent == <<Ev("send", TypeOf[kind], e)>>
            next ==
                IF e # ""
                THEN [srv EXCEPT !.pc = "done", !.ret = e,
                                 !.ev = @ \o sent \o <<Ev("close", 0, ""), Ev("return", 0, e)>>]
                ELSE IF srv.pc = "challenge"
                THEN [srv EXCEPT !.pc = "proof", !.ev = @ \o sent]
                ELSE [srv EXCEPT !.pc = "done", !.ret = "ok",
                                 !.ev = @ \o sent \o <<Ev("return", 0, "ok")>>]
        IN  hs' = [hs EXCEPT !.srv = next,
                             !.s2c = Sent(@, AuthMessage(TypeOf[kind], payload), e,
                                          hs.closed.cli),
                             !.closed.srv = @ \/ e # ""]
    /\ UNCHANGED <<arg, res, maxFramePayload, ks, connVars>>

\* failAuth(connection, code, message)
ServerFail ==
    /\ hs.srv.pc = "fail"
    /\ \E e \in SendOutcomes(hs.closed.cli) :
        hs' = [hs EXCEPT !.srv = [@ EXCEPT !.pc = "done", !.ret = hs.srv.code,
                                           !.ev = @ \o failAuth(hs.srv.code, hs.srv.message, e)],
                         !.s2c = Sent(@, AuthMessage(TypeAuthError,
                                          ErrorPayload(hs.srv.code, hs.srv.message)),
                                      e, hs.closed.cli),
                         !.closed.srv = TRUE]
    /\ UNCHANGED <<arg, res, maxFramePayload, ks, connVars>>

(* ---- AuthenticateAsClient ---- *)

\* the client's locals: priv, agentID, the challenge, the message read for the
\* result (got: one was read), the value returned with the server's code, and
\* what it did so far
IdleClient ==
    [pc |-> "off", key |-> "K1", agentID |-> "", ch |-> NoChallenge,
     got |-> FALSE, msg |-> BadFrame, ret |-> "none", code |-> "", ev |-> <<>>]

\* loadOrCreateAgentKey, then sendAuth of the auth_begin; and the signing and
\* sendAuth of the auth_proof
ClientSend ==
    /\ hs.cli.pc \in {"begin", "proof"}
    /\ \E e \in SendOutcomes(hs.closed.srv), loaded \in {TRUE} \cup {~arg.faults} :
        LET cli == hs.cli
            agentID == IF cli.pc = "begin" THEN agentIDFromPublicKey(Public(arg.key)).id
                       ELSE cli.agentID
            toSign == stringToSignV1(agentID, cli.ch.challenge_id, cli.ch.nonce,
                                     cli.ch.issued_at_ms)
            kind == IF cli.pc = "begin" THEN "auth_begin" ELSE "auth_proof"
            payload ==
                IF cli.pc = "begin"
                THEN mustMarshalJSON([type |-> "auth_begin", v |-> authVersion,
                                      agent_id |-> agentID, client_time_ms |-> hs.now])
                ELSE mustMarshalJSON([type |-> "auth_proof", v |-> authVersion,
                                      agent_id |-> agentID,
                                      challenge_id |-> cli.ch.challenge_id,
                                      nonce |-> cli.ch.nonce,
                                      issued_at_ms |-> cli.ch.issued_at_ms,
                                      signature |-> b64Encode(Sign(cli.key, toSign))])
            keyErr == cli.pc = "begin" /\ ~loaded
            sent == <<Ev("send", TypeOf[kind], e)>>
            next ==
                IF keyErr
                THEN [cli EXCEPT !.pc = "done", !.ret = "key", !.ev = @ \o <<Ev("return", 0, "key")>>]
                ELSE IF e # ""
                THEN [cli EXCEPT !.pc = "done", !.ret = e, !.key = arg.key, !.agentID = agentID,
                                 !.ev = @ \o sent \o <<Ev("return", 0, e)>>]
                ELSE [cli EXCEPT !.pc = IF cli.pc = "begin" THEN "challenge" ELSE "result",
                                 !.key = arg.key, !.agentID = agentID, !.ev = @ \o sent]
        IN  hs' = [hs EXCEPT !.cli = next,
                             !.c2s = IF keyErr THEN @
                                     ELSE Sent(@, AuthMessage(TypeOf[kind], payload), e,
                                               hs.closed.srv)]
    /\ UNCHANGED <<arg, res, maxFramePayload, ks, connVars>>

\* onChallenge without the check of challenge_id and nonce
onChallengeAnyFields(payload) ==
    LET u == unmarshalAndValidate(payload, "auth_challenge")
    IN  IF u.err THEN [why |-> "json", ch |-> NoChallenge]
        ELSE [why |-> "",
              ch |-> [challenge_id |-> u.v.challenge_id, nonce |-> u.v.nonce,
                      issued_at_ms |-> u.v.issued_at_ms,
                      expires_at_ms |-> u.v.expires_at_ms]]

\* the client's handling of the message it got for the challenge: "" and the
\* challenge when it goes on to the proof, else why it fails
onChallenge(payload) ==
    LET u == unmarshalAndValidate(payload, "auth_challenge")
    IN  IF u.err THEN [why |-> "json", ch |-> NoChallenge]
        ELSE IF Blank(u.v.challenge_id) \/ Blank(u.v.nonce)
        THEN [why |-> "invalid", ch |-> NoChallenge]
        ELSE [why |-> "",
              ch |-> [challenge_id |-> u.v.challenge_id, nonce |-> u.v.nonce,
                      issued_at_ms |-> u.v.issued_at_ms,
                      expires_at_ms |-> u.v.expires_at_ms]]

\* a dispatch that takes any auth_ok with a valid header for success
onResultAnyAgent(msg, agentID) ==
    LET ok == unmarshalAndValidate(msg.payload, "auth_ok")
        ae == unmarshalAndValidate(msg.payload, "auth_error")
        out(ret, code, closes) == [ret |-> ret, code |-> code, closes |-> closes]
    IN  IF msg.typ = TypeAuthOK
        THEN IF ok.err THEN out("json", "", FALSE)
             ELSE out("ok", "", FALSE)
        ELSE IF msg.typ = TypeAuthError
        THEN IF ae.err THEN out("json", "", FALSE)
             ELSE out("auth_error", ae.v.code, FALSE)
        ELSE out("type", "", TRUE)

\* a dispatch that takes an auth_error with a valid header for success
onResultErrorIsOk(msg, agentID) ==
    LET ok == unmarshalAndValidate(msg.payload, "auth_ok")
        ae == unmarshalAndValidate(msg.payload, "auth_error")
        out(ret, code, closes) == [ret |-> ret, code |-> code, closes |-> closes]
    IN  IF msg.typ = TypeAuthOK
        THEN IF ok.err THEN out("json", "", FALSE)
             ELSE IF ok.v.agent_id # agentID THEN out("mismatch", "", FALSE)
             ELSE out("ok", "", FALSE)
        ELSE IF msg.typ = TypeAuthError
        THEN IF ae.err THEN out("json", "", FALSE)
             ELSE out("ok", ae.v.code, FALSE)
        ELSE out("type", "", TRUE)

\* the client's dispatch on the message it got for the result: what it
\* returns, the server's code if any, and whether it closes the connection
onResult(msg, agentID) ==
    LET ok == unmarshalAndValidate(msg.payload, "auth_ok")
        ae == unmarshalAndValidate(msg.payload, "auth_error")
        out(ret, code, closes) == [ret |-> ret, code |-> code, closes |-> closes]
    IN  IF msg.typ = TypeAuthOK
        THEN IF ok.err THEN out("json", "", FALSE)
             ELSE IF ok.v.agent_id # agentID THEN out("mismatch", "", FALSE)
             ELSE out("ok", "", FALSE)
        ELSE IF msg.typ = TypeAuthError
        THEN IF ae.err THEN out("json", "", FALSE)
             ELSE out("auth_error", ae.v.code, FALSE)
        ELSE out("type", "", TRUE)

\* readAuth(connection, TypeAuthChallenge) and the checks of the challenge;
\* readNextWithTimeout for the result and the dispatch on its type
ClientRecv ==
    /\ hs.cli.pc \in {"challenge", "result"}
    /\ \E o \in ReadOutcomes(hs.s2c, hs.closed.srv) :
        LET cli == hs.cli
            wrongType == cli.pc = "challenge" /\ o.err = "" /\ o.msg.typ # TypeAuthChallenge
            c == onChallenge(o.msg.payload)
            r == onResult(o.msg, cli.agentID)
            closes == \/ o.err = "protocol" \/ wrongType
                      \/ (cli.pc = "result" /\ o.err = "" /\ r.closes)
            got == IF o.err \in {"", "protocol"}
                   THEN <<Ev("recv", o.msg.typ, o.err)>> ELSE <<>>
            quit(why, code) ==
                [cli EXCEPT !.pc = "done", !.ret = why, !.code = code,
                            !.ev = @ \o got
                                     \o (IF closes THEN <<Ev("close", 0, "")>> ELSE <<>>)
                                     \o <<Ev("return", 0, why)>>]
            next ==
                IF o.err # "" THEN quit(o.err, "")
                ELSE IF wrongType THEN quit("type", "")
                ELSE IF cli.pc = "result"
                THEN [quit(r.ret, r.code) EXCEPT !.got = TRUE, !.msg = o.msg]
                ELSE IF c.why # "" THEN quit(c.why, "")
                ELSE [cli EXCEPT !.pc = "proof", !.ch = c.ch, !.ev = @ \o got]
        IN  hs' = [hs EXCEPT !.cli = next,
                             !.s2c = IF o.err \in {"", "protocol"} THEN Tail(@) ELSE @,
                             !.closed.cli = @ \/ closes]
    /\ UNCHANGED <<arg, res, maxFramePayload, ks, connVars>>

(* ---- a peer that is not this program, the clock, the runs ---- *)

\* the JSON header of a message kind, with a wrong version, with another type
HeaderVariants(kind) == {<<kind, authVersion>>, <<kind, 2>>, <<"auth_other", authVersion>>}

\* frames of other kinds than the handshake expects, and a malformed one
OtherFrames ==
    {BadFrame, AuthMessage(TypePing, EmptyPayload)}
        \cup {AuthMessage(t, p) : t \in {TypeAuthBegin, TypeAuthChallenge, TypeAuthProof,
                                         TypeAuthOK, TypeAuthError},
                                  p \in {EmptyPayload, GarbagePayload}}

\* what a peer in the client's place may send: auth_begin and auth_proof
\* messages with any header, any claimed identity, any echo of the challenge
\* and any signature it can have got hold of
PeerToServer ==
    LET issued == hs.srv.ch.issued_at_ms
        honest == stringToSignV1("A1", "c1", "n1", issued)
        sigs(a, c, n, i) ==
            {b64Encode(Sign(k, stringToSignV1(a, c, n, i))) : k \in Keys}
                \cup {b64Encode(Sign("K1", honest)), b64Encode(RandomSig),
                      b64Encode(ShortSig), NotBase64}
    IN  {AuthMessage(TypeAuthBegin,
                     mustMarshalJSON([type |-> h[1], v |-> h[2], agent_id |-> a,
                                      client_time_ms |-> 0])) :
            h \in HeaderVariants("auth_begin"), a \in {"", " ", "A1", "A2"}}
        \cup {AuthMessage(TypeAuthBegin,
                          mustMarshalJSON([type |-> "auth_begin", v |-> authVersion,
                                           agent_id |-> "A1", unknown_field |-> "x"]))}
        \cup UNION {{AuthMessage(TypeAuthProof,
                          mustMarshalJSON([type |-> "auth_proof", v |-> authVersion,
                                           agent_id |-> a, challenge_id |-> c, nonce |-> n,
                                           issued_at_ms |-> i, signature |-> s])) :
                        s \in sigs(a, c, n, i)} :
                a \in {"A1", "A2"}, c \in {"c1", "c2"}, n \in {"n1", "n2"},
                i \in {issued, issued + 1}}
        \cup {AuthMessage(TypeAuthProof,
                          mustMarshalJSON([type |-> h[1], v |-> h[2], agent_id |-> "A1",
                                           challenge_id |-> "c1", nonce |-> "n1",
                                           issued_at_ms |-> issued,
                                           signature |-> b64Encode(Sign("K1", honest))])) :
                h \in HeaderVariants("auth_proof")}
        \cup OtherFrames

\* what a peer in the server's place may send: auth_challenge, auth_ok and
\* auth_error messages with any header and any field values
PeerToClient ==
    {AuthMessage(TypeAuthChallenge,
                 mustMarshalJSON([type |-> h[1], v |-> h[2], challenge_id |-> c, nonce |-> n,
                                  issued_at_ms |-> 0, expires_at_ms |-> ChallengeTTL])) :
        h \in HeaderVariants("auth_challenge"), c \in {"", "c1"}, n \in {" ", "n1"}}
    \cup {AuthMessage(TypeAuthOK,
                      mustMarshalJSON([type |-> h[1], v |-> h[2], agent_id |-> a,
                                       authenticated_at_ms |-> 0])) :
            h \in HeaderVariants("auth_ok"), a \in {"A1", "A2"}}
    \cup {AuthMessage(TypeAuthError,
                      mustMarshalJSON([type |-> h[1], v |-> h[2], code |-> c, message |-> m])) :
            h \in HeaderVariants("auth_error"), c \in {"bad_signature", "unknown_agent"},
            m \in {"", "m"}}
    \cup OtherFrames

\* the peer sends its next message once the one before was taken
PeerSend ==
    /\ hs.sends < MaxPeerSends
    /\ \/ /\ arg.client = "peer" /\ ~hs.closed.cli /\ hs.c2s = <<>>
          /\ \E m \in PeerToServer : hs' = [hs EXCEPT !.c2s = <<m>>, !.sends = @ + 1]
       \/ /\ arg.server = "peer" /\ ~hs.closed.srv /\ hs.s2c = <<>>
          /\ \E m \in PeerToClient : hs' = [hs EXCEPT !.s2c = <<m>>, !.sends = @ + 1]
    /\ UNCHANGED <<arg, res, maxFramePayload, ks, connVars>>

\* the peer closes its end
PeerHangUp ==
    /\ \/ /\ arg.client = "peer" /\ ~hs.closed.cli
          /\ hs' = [hs EXCEPT !.closed.cli = TRUE]
       \/ /\ arg.server = "peer" /\ ~hs.closed.srv
          /\ hs' = [hs EXCEPT !.closed.srv = TRUE]
    /\ UNCHANGED <<arg, res, maxFramePayload, ks, connVars>>

\* nowMS() moves on
Tick ==
    /\ hs.now < MaxClock
    /\ hs' = [hs EXCEPT !.now = @ + 1]
    /\ UNCHANGED <<arg, res, maxFramePayload, ks, connVars>>

\* lookupPublicKey: what the registry holds for the two agent ids
Registries == {[A1 |-> p, A2 |-> q] : p \in {"none", "P0", "P1", "P2"}, q \in {"none", "P2"}}

\* who runs the program's code on each side, the registry, whether timeouts
\* and key store failures may happen, the client's key pair
AuthScenarios ==
    [client : {"peer"}, server : {"code"}, registry : Registries, faults : BOOLEAN,
     key : {"K1"}]
    \cup [client : {"code"}, server : {"peer"}, registry : {[A1 |-> "P1", A2 |-> "P2"]},
          faults : BOOLEAN, key : Keys]
    \cup [client : {"code"}, server : {"code"}, registry : Registries, faults : BOOLEAN,
          key : Keys]

InitAuth ==
    /\ arg \in AuthScenarios
    /\ res = [done |-> FALSE]
    /\ maxFramePayload = ConnMaxPayload
    /\ InitConn
    /\ ks = [on |-> FALSE]
    /\ hs = [now |-> 0, c2s |-> <<>>, s2c |-> <<>>, sends |-> 0,
             closed |-> [srv |-> FALSE, cli |-> FALSE],
             srv |-> [IdleServer EXCEPT !.pc = IF arg.server = "code" THEN "begin" ELSE "off"],
             cli |-> [IdleClient EXCEPT !.pc = IF arg.client = "code" THEN "begin" ELSE "off"]]

NextAuth ==
    \/ ServerRecv \/ ServerSend \/ ServerFail
    \/ ClientSend \/ ClientRecv
    \/ PeerSend \/ PeerHangUp
    \/ Tick

SpecAuth == InitAuth /\ [][NextAuth]_vars

\* both roles are scheduled: a call that can take its next step takes it
SpecAuthLive ==
    /\ SpecAuth
    /\ WF_vars(ServerRecv) /\ WF_vars(ServerSend) /\ WF_vars(ServerFail)
    /\ WF_vars(ClientSend) /\ WF_vars(ClientRecv)

-----------------------------------------------------------------------------
(***************************************************************************)
(* The agent key store.  The two key files and their ".tmp" siblings are   *)
(* the state; a process calls loadOrCreateAgentKey, and every file         *)
(* operation of the call is a step of its own.                             *)
(***************************************************************************)

\* calls of loadOrCreateAgentKey a process makes, one after the other
MaxKeyCalls == 3

Procs == {"p1", "p2"}

\* what is at a path: nothing; a file os.ReadFile cannot read; a PEM block with
\* a type label around a DER body; a bare DER body; bytes starting with
\* "-----BEGIN" that pem.Decode does not take (st "text")
Absent == [st |-> "absent", label |-> "", body |-> ""]
Denied == [st |-> "denied", label |-> "", body |-> ""]
Pem(label, body) == [st |-> "pem", label |-> label, body |-> body]
Der(body) == [st |-> "der", label |-> "", body |-> body]
BrokenPem == [st |-> "text", label |-> "", body |-> "junk"]

\* os.ReadFile
ReadFile(f) ==
    [err |-> CASE f.st = "absent" -> "notexist" [] f.st = "denied" -> "denied" [] OTHER -> "",
     b |-> IF f.st \in {"absent", "denied"} THEN Absent ELSE f]

maybePEMToDER(b, wantType) ==
    IF b.body = "" THEN [err |-> TRUE, der |-> ""]
    ELSE IF b.st \in {"pem", "text"}
    THEN IF b.st = "text" THEN [err |-> TRUE, der |-> ""]
         ELSE IF wantType # "" /\ b.label # wantType THEN [err |-> TRUE, der |-> ""]
         ELSE [err |-> FALSE, der |-> b.body]
    ELSE [err |-> FALSE, der |-> b.body]

\* a DER body is the PKCS#8 form of an Ed25519 private key, of an RSA one
\* ("rsa"), the SubjectPublicKeyInfo of a public key, or nothing x509 parses
parseEd25519PrivateKeyPKCS8(b) ==
    LET d == maybePEMToDER(b, "PRIVATE KEY")
    IN  IF d.err \/ d.der \notin Keys THEN [err |-> TRUE, key |-> ""]
        ELSE [err |-> FALSE, key |-> d.der]

parseEd25519PublicKeySPKI(b) ==
    LET d == maybePEMToDER(b, "PUBLIC KEY")
    IN  IF d.err \/ d.der \notin {"P1", "P2"} THEN [err |-> TRUE, key |-> ""]
        ELSE [err |-> FALSE, key |-> d.der]

marshalEd25519PrivateKeyPKCS8PEM(priv) == Pem("PRIVATE KEY", priv)

marshalEd25519PublicKeySPKIPEM(pub) == Pem("PUBLIC KEY", pub)

\* what a call returns: err "" with the key pair and the agent id, or an error
KeyResult(err, priv, pub, id) == [err |-> err, priv |-> priv, pub |-> pub, id |-> id]
KeyError(err) == KeyResult(err, "", "", "")
NoResult == KeyError("none")

\* bytes.Equal(derivedPub, pub) answering yes whatever the keys are
derivedPubAlwaysEqual(priv, pub) == TRUE

\* priv.Public() equals the public key loaded
derivedPubEqual(priv, pub) == Public(priv) = pub

\* the load branch of loadOrCreateAgentKey
loadKey(privBytes, pubBytes) ==
    LET priv == parseEd25519PrivateKeyPKCS8(privBytes)
        pub == parseEd25519PublicKeySPKI(pubBytes)
    IN  IF priv.err THEN KeyError("invalid private key")
        ELSE IF pub.err THEN KeyError("invalid public key")
        ELSE IF ~derivedPubEqual(priv.key, pub.key) THEN KeyError("mismatch")
        ELSE IF agentIDFromPublicKey(pub.key).err THEN KeyError("agent id")
        ELSE KeyResult("", priv.key, pub.key, agentIDFromPublicKey(pub.key).id)

\* the switch with a missing half of the pair taken as no pair at all
keyCaseRotate(privErr, pubErr) ==
    IF privErr = "" /\ pubErr = "" THEN "load"
    ELSE IF privErr = "notexist" \/ pubErr = "notexist" THEN "create"
    ELSE IF privErr # "" THEN "privErr"
    ELSE "pubErr"

\* the cases of the switch of loadOrCreateAgentKey, in the code's order
keyCase(privErr, pubErr) ==
    IF privErr = "" /\ pubErr = "" THEN "load"
    ELSE IF privErr = "notexist" /\ pubErr = "notexist" THEN "create"
    ELSE IF privErr = "notexist" \/ pubErr = "notexist" THEN "incomplete"
    ELSE IF privErr # "" THEN "privErr"
    ELSE "pubErr"

\* a process between two calls
IdleProc ==
    [pc |-> "idle", left |-> 0, n |-> 0, privR |-> ReadFile(Absent), pubR |-> ReadFile(Absent),
     gen |-> "", touched |-> FALSE, after |-> FALSE,
     start |-> [priv |-> Absent, pub |-> Absent], last |-> NoResult]

KeyFixed == UNCHANGED <<arg, res, maxFramePayload, hs, connVars>>

\* the call of process p returns r
KeyReturn(k, p, r) ==
    [k EXCEPT !.proc[p].pc = "idle", !.proc[p].last = r,
               !.proc[p].left = @ - 1, !.proc[p].n = @ + 1,
               !.first = IF @ = NoResult /\ r.err = "" THEN r ELSE @]

\* loadOrCreateAgentKey is called: agentKeyPaths
KeyCall ==
    \E p \in Procs :
        /\ ks.on /\ ks.proc[p].pc = "idle" /\ ks.proc[p].left > 0
        /\ LET q == [ks EXCEPT !.proc[p].touched = FALSE, !.proc[p].gen = "",
                               !.proc[p].after = ks.first # NoResult,
                               !.proc[p].privR = ReadFile(Absent),
                               !.proc[p].pubR = ReadFile(Absent),
                               !.proc[p].start = [priv |-> ks.file.priv, pub |-> ks.file.pub]]
           IN  ks' = IF ks.env = "nodir"
                     THEN KeyReturn(q, p, KeyError("paths"))
                     ELSE [q EXCEPT !.proc[p].pc = "readPriv"]
        /\ KeyFixed

\* privBytes, privErr := os.ReadFile(privPath)
KeyReadPriv ==
    \E p \in Procs :
        /\ ks.on /\ ks.proc[p].pc = "readPriv"
        /\ ks' = [ks EXCEPT !.proc[p].privR = ReadFile(ks.file.priv), !.proc[p].pc = "readPub"]
        /\ KeyFixed

\* pubBytes, pubErr := os.ReadFile(pubPath)
KeyReadPub ==
    \E p \in Procs :
        /\ ks.on /\ ks.proc[p].pc = "readPub"
        /\ ks' = [ks EXCEPT !.proc[p].pubR = ReadFile(ks.file.pub), !.proc[p].pc = "switch"]
        /\ KeyFixed

\* the switch: load and return, generate a key pair, or return the error
KeySwitch ==
    \E p \in Procs :
        /\ ks.on /\ ks.proc[p].pc = "switch"
        /\ LET me == ks.proc[p]
               which == keyCase(me.privR.err, me.pubR.err)
           IN  CASE which = "load" ->
                        ks' = KeyReturn(ks, p, loadKey(me.privR.b, me.pubR.b))
                 [] which = "create" ->
                        \E k \in Keys \cup {"fail"} :
                            /\ k = "fail" => ks.faults
                            /\ ks' = IF k = "fail"
                                     THEN KeyReturn(ks, p, KeyError("rand"))
                                     ELSE [ks EXCEPT !.proc[p].gen = k,
                                                     !.proc[p].pc = "privTmp"]
                 [] which = "incomplete" -> ks' = KeyReturn(ks, p, KeyError("incomplete"))
                 [] which = "privErr" -> ks' = KeyReturn(ks, p, KeyError(me.privR.err))
                 [] OTHER -> ks' = KeyReturn(ks, p, KeyError(me.pubR.err))
        /\ KeyFixed

\* the half of the pair a step of writeFileAtomic works on
HalfOf(pc) == IF pc \in {"privTmp", "privRemove", "privRename"} THEN "priv" ELSE "pub"
TmpOf(half) == IF half = "priv" THEN "privTmp" ELSE "pubTmp"

\* writeFileAtomic: os.MkdirAll, os.WriteFile(tmp, contents, perm)
KeyWriteTmp ==
    \E p \in Procs, ok \in BOOLEAN :
        /\ ks.on /\ ks.proc[p].pc \in {"privTmp", "pubTmp"}
        /\ ~ok => ks.faults
        /\ LET me == ks.proc[p]
               half == HalfOf(me.pc)
               contents == IF half = "priv" THEN marshalEd25519PrivateKeyPKCS8PEM(me.gen)
                           ELSE marshalEd25519PublicKeySPKIPEM(Public(me.gen))
           IN  ks' = IF ok
                     THEN [ks EXCEPT !.file[TmpOf(half)] = contents,
                                     !.proc[p].pc = IF half = "priv" THEN "privRemove"
                                                    ELSE "pubRemove"]
                     ELSE KeyReturn(ks, p, KeyError("write"))
        /\ KeyFixed

\* writeFileAtomic: _ = os.Remove(path)
KeyRemove ==
    \E p \in Procs :
        /\ ks.on /\ ks.proc[p].pc \in {"privRemove", "pubRemove"}
        /\ LET half == HalfOf(ks.proc[p].pc)
           IN  ks' = [ks EXCEPT !.file[half] = Absent,
                                !.proc[p].touched = @ \/ ks.file[half] # Absent,
                                !.proc[p].pc = IF half = "priv" THEN "privRename"
                                               ELSE "pubRename"]
        /\ KeyFixed

\* writeFileAtomic: os.Rename(tmp, path), and os.Remove(tmp) when it fails;
\* after the public half the call returns the new pair
KeyRename ==
    \E p \in Procs, ok \in BOOLEAN :
        /\ ks.on /\ ks.proc[p].pc \in {"privRename", "pubRename"}
        /\ ~ok => ks.faults \/ ks.file[TmpOf(HalfOf(ks.proc[p].pc))] = Absent
        /\ ok => ks.file[TmpOf(HalfOf(ks.proc[p].pc))] # Absent
        /\ LET me == ks.proc[p]
               half == HalfOf(me.pc)
               moved == [ks EXCEPT !.file[half] = ks.file[TmpOf(half)],
                                   !.file[TmpOf(half)] = Absent,
                                   !.proc[p].touched = TRUE]
               pub == Public(me.gen)
           IN  ks' = IF ~ok
                     THEN KeyReturn([ks EXCEPT !.file[TmpOf(half)] = Absent], p,
                                    KeyError("rename"))
                     ELSE IF half = "priv"
                     THEN [moved EXCEPT !.proc[p].pc = "pubTmp"]
                     ELSE KeyReturn(moved, p,
                                    KeyResult("", me.gen, pub, agentIDFromPublicKey(pub).id))
        /\ KeyFixed

\* what the two key paths hold before the first call
PrivFiles ==
    {Absent, Denied, BrokenPem, Pem("PRIVATE KEY", "K1"), Pem("PRIVATE KEY", "K2"),
     Der("K1"), Pem("PUBLIC KEY", "P1"), Pem("PRIVATE KEY", "rsa")}

PubFiles ==
    {Absent, Denied, BrokenPem, Pem("PUBLIC KEY", "P1"), Pem("PUBLIC KEY", "P2"),
     Der("P1"), Pem("PRIVATE KEY", "K1"), Pem("PUBLIC KEY", "P0")}

\* one process calls loadOrCreateAgentKey MaxKeyCalls times in a row, as the
\* tests do; nothing else touches the store
InitKeys ==
    /\ arg = [kind |-> "keys"]
    /\ res = [done |-> FALSE]
    /\ maxFramePayload = ConnMaxPayload
    /\ InitConn
    /\ hs = [on |-> FALSE]
    /\ \E priv \in PrivFiles, pub \in PubFiles, env \in {"dir", "nodir"}, faults \in BOOLEAN :
          ks = [on |-> TRUE, env |-> env, faults |-> faults,
                file |-> [priv |-> priv, pub |-> pub, privTmp |-> Absent, pubTmp |-> Absent],
                proc |-> [p \in Procs |->
                             [IdleProc EXCEPT !.left = IF p = "p1" THEN MaxKeyCalls ELSE 0]],
                first |-> NoResult]

NextKeys ==
    \/ KeyCall \/ KeyReadPriv \/ KeyReadPub \/ KeySwitch
    \/ KeyWriteTmp \/ KeyRemove \/ KeyRename

SpecKeys == InitKeys /\ [][NextKeys]_vars

\* first use on an empty store by two processes at once: each calls
\* loadOrCreateAgentKey, and the first of them once more afterwards; file
\* operations may fail or not
InitRace ==
    /\ arg = [kind |-> "race"]
    /\ res = [done |-> FALSE]
    /\ maxFramePayload = ConnMaxPayload
    /\ InitConn
    /\ hs = [on |-> FALSE]
    /\ \E faults \in BOOLEAN :
          ks = [on |-> TRUE, env |-> "dir", faults |-> faults,
                file |-> [priv |-> Absent, pub |-> Absent, privTmp |-> Absent,
                          pubTmp |-> Absent],
                proc |-> [p \in Procs |-> [IdleProc EXCEPT !.left = IF p = "p1" THEN 2 ELSE 1]],
                first |-> NoResult]

SpecRace == InitRace /\ [][NextKeys]_vars

-----------------------------------------------------------------------------
(* ReadNext on frames a peer may write: an opening frame and up to two      *)
(* further frames, each a frame decodeFrameFrom accepts, drawn from sets    *)
(* that break every rule of ReadNext, one at a time and together.           *)

\* payloads of an opening frame: none, an envelope cut short, valid envelopes
\* without and with data, undefined kinds, a format other than 0, reserved bytes
OpenPayloads ==
    { <<>>, <<1, 0, 0>>, <<1, 0, 0, 0>>, <<2, 0, 0, 0, 7>>, <<0, 0, 0, 0>>,
      <<4, 0, 0, 0>>, <<1, 1, 0, 0>>, <<1, 0, 0, 1>>, <<3, 0, 1, 0>> }

OpenFrames ==
    { Frame(t, fl, sid, p) :
        t \in {TypePing, TypePong, TypeAuthBegin, TypeMessagePayload},
        fl \in 0..3, sid \in {0, 1}, p \in OpenPayloads }

SecondFrames ==
    { Frame(t, fl, sid, p) :
        t \in {TypeAuthBegin, TypeAuthProof, TypeMessagePayload},
        fl \in 0..3, sid \in {0, 1, 2}, p \in {<<>>, <<9>>} }

ThirdFrames ==
    { Frame(t, fl, sid, <<8>>) :
        t \in {TypeAuthBegin, TypeMessagePayload}, fl \in {0, flagEnd}, sid \in {0, 1} }

FrameRuns ==
    { <<a>> : a \in OpenFrames }
        \cup { <<a, b>> : a \in OpenFrames, b \in SecondFrames }
        \cup { <<a, b, c>> : a \in {f \in OpenFrames : f.flags = flagStart},
                             b \in {f \in SecondFrames : f.flags = 0},
                             c \in ThirdFrames }

\* how many frames of a run ReadNext has consumed when `rest` bytes are left
RECURSIVE FramesIn(_, _)
FramesIn(frames, rest) ==
    IF frames = <<>> \/ Len(Flatten(WritesOf(frames))) <= Len(rest) THEN 0
    ELSE 1 + FramesIn(Tail(frames), rest)

InitRecv ==
    /\ arg \in [frames : FrameRuns]
    /\ maxFramePayload = MaxMaxPayload
    /\ res = [done |-> FALSE]
    /\ InitConn
    /\ AuthOff

\* one ReadNext call on the bytes of the frames
RunReadNext ==
    /\ ~res.done
    /\ LET bytes == Flatten(WritesOf(arg.frames))
           got == ReadNextAll(bytes, maxFramePayload)
       IN  res' = [done |-> TRUE, got |-> got, used |-> FramesIn(arg.frames, got.rest)]
    /\ UNCHANGED <<arg, maxFramePayload>>
    /\ UNCHANGED <<connVars, authVars>>

SpecRecv == InitRecv /\ [][RunReadNext]_vars

-----------------------------------------------------------------------------
(* Send on messages a caller may pass: every type, defined or not, with     *)
(* stream ids, payloads, kinds and formats that break each rule of Send.    *)

SendInputs ==
    { Message(t, sid, p, k, f, d) :
        t \in {TypePing, TypePong, TypeAuthBegin, TypeAuthError, TypeMessagePayload, 0, 6, 153},
        sid \in {0, 1},
        p \in {<<>>, Ramp(10, 1), Ramp(10, MaxDataLen)},
        k \in 0..4,
        f \in {PayloadFormatOpaqueBytes, 1},
        d \in {Ramp(20, n) : n \in 0..MaxDataLen} }

InitSend ==
    /\ arg \in [msg : SendInputs]
    /\ maxFramePayload \in 1..MaxMaxPayload
    /\ res = [done |-> FALSE]
    /\ InitConn
    /\ AuthOff

\* one Send call on a transport that takes every write
RunSend ==
    /\ ~res.done
    /\ LET s == SendFrames(arg.msg, maxFramePayload)
       IN  res' = [done |-> TRUE, err |-> s.err, frames |-> s.frames,
                   bytes |-> Flatten(WritesOf(s.frames))]
    /\ UNCHANGED <<arg, maxFramePayload>>
    /\ UNCHANGED <<connVars, authVars>>

SpecSend == InitSend /\ [][RunSend]_vars

-----------------------------------------------------------------------------
(* unmarshalAndValidate on payloads a peer may send: JSON objects with and  *)
(* without "type" and "v", with the fields of any of the five messages and  *)
(* with a field no struct has, and payloads that are no JSON object.        *)

AuthKinds == DOMAIN StructFields

\* a JSON object: "type" ty ("" for none), "v" v (-1 for none), the other
\* fields of message `body` ("" for none) with values that are not the zero
\* value, and a field "extra" if asked for
JSONObject(ty, v, body, extra) ==
    LET keys == (IF ty = "" THEN {} ELSE {"type"})
                    \cup (IF v = -1 THEN {} ELSE {"v"})
                    \cup (IF body = "" THEN {} ELSE StructFields[body] \ {"type", "v"})
                    \cup (IF extra THEN {"extra"} ELSE {})
    IN  [form |-> "json",
         f |-> [k \in keys |->
                   CASE k = "type" -> ty
                     [] k = "v" -> v
                     [] k = "extra" -> "x"
                     [] k = "signature" -> b64Encode(Sign("K1", <<"x">>))
                     [] k \in {"client_time_ms", "issued_at_ms", "expires_at_ms",
                                "authenticated_at_ms"} -> 7
                     [] OTHER -> "x"]]

JSONInputs ==
    { JSONObject(ty, v, body, extra) :
        ty \in AuthKinds \cup {"", "auth_bogus"}, v \in {-1, 0, 1, 2},
        body \in AuthKinds \cup {""}, extra \in BOOLEAN }
        \cup {EmptyPayload, GarbagePayload}

InitJSON ==
    /\ arg \in [payload : JSONInputs, want : AuthKinds]
    /\ maxFramePayload = ConnMaxPayload
    /\ res = [done |-> FALSE]
    /\ InitConn
    /\ AuthOff

RunUnmarshal ==
    /\ ~res.done
    /\ res' = [done |-> TRUE, out |-> unmarshalAndValidate(arg.payload, arg.want)]
    /\ UNCHANGED <<arg, maxFramePayload>>
    /\ UNCHANGED <<connVars, authVars>>

SpecJSON == InitJSON /\ [][RunUnmarshal]_vars

-----------------------------------------------------------------------------
(* The server's checks of an auth_proof (WaitForAgentAuthentication after   *)
(* readAuth of the proof), on proofs with a valid header that echo the      *)
(* challenge or not, checked before, at and after expires_at_ms, with       *)
(* signatures of every kind.                                                *)

\* the challenge the server issued to agent "A1", whose registered key is "P1"
IssuedChallenge ==
    [challenge_id |-> "c1", nonce |-> "n1", issued_at_ms |-> 1,
     expires_at_ms |-> 1 + ChallengeTTL]

\* the signature field of a proof with the given echoed fields: made with the
\* agent's key or another key over the proof's own fields, made with the
\* agent's key over the fields of the challenge, 64 bytes that are no
\* signature, no bytes, text that is not base64url
SignatureTexts(agentID, challengeID, nonce, issuedAt) ==
    { b64Encode(Sign(k, stringToSignV1(agentID, challengeID, nonce, issuedAt))) : k \in Keys }
        \cup { b64Encode(Sign("K1", stringToSignV1("A1", IssuedChallenge.challenge_id,
                                                  IssuedChallenge.nonce,
                                                  IssuedChallenge.issued_at_ms))),
               b64Encode(RandomSig), b64Encode(ShortSig), NotBase64 }

ProofInputs ==
    UNION { { [agent_id |-> a, challenge_id |-> c, nonce |-> n, issued_at_ms |-> t,
               signature |-> s] : s \in SignatureTexts(a, c, n, t) } :
            a \in {"A1", "A2"}, c \in {"c1", "c0"}, n \in {"n1", "n0"}, t \in {0, 1} }

InitProof ==
    /\ arg \in [proof : ProofInputs, now : 0..MaxClock]
    /\ maxFramePayload = ConnMaxPayload
    /\ res = [done |-> FALSE]
    /\ InitConn
    /\ AuthOff

RunProofChecks ==
    /\ ~res.done
    /\ res' = [done |-> TRUE,
               out |-> onProof(mustMarshalJSON([type |-> "auth_proof", v |-> authVersion]
                                                   @@ arg.proof),
                               "A1", "P1", IssuedChallenge, arg.now)]
    /\ UNCHANGED <<arg, maxFramePayload>>
    /\ UNCHANGED <<connVars, authVars>>

SpecProof == InitProof /\ [][RunProofChecks]_vars

-----------------------------------------------------------------------------
(* Claims on the codec *)

\* C1 (round trip): for every valid message and every max frame payload >= 5 used
\* by both ends, Send succeeds and the ReadNext of what it wrote returns, without
\* error, a message equal to the one sent in every field, leaving no byte unread.
C1_RoundTrip ==
    (res.done /\ maxFramePayload >= 5) =>
        /\ res.a.sendErr = NoErr
        /\ res.a.got.err = NoErr
        /\ res.a.got.msg = arg.msg
        /\ res.a.got.rest = <<>>

\* a fragmented payload message (three frames or more) went round
C1_Witness ==
    /\ res.done /\ maxFramePayload >= 5
    /\ arg.msg.Type = TypeMessagePayload
    /\ res.a.frames >= 3
    /\ res.a.got.msg = arg.msg

\* C2 (fragmentation transparency): for a valid payload message and two distinct
\* max frame payloads, each >= 4, both deliveries succeed and deliver the same
\* message (stream id, kind, format and data).
C2_FragmentationTransparent ==
    (res.done /\ maxFramePayload >= 4 /\ arg.max2 >= 4 /\ maxFramePayload # arg.max2) =>
        /\ res.a.sendErr = NoErr /\ res.b.sendErr = NoErr
        /\ res.a.got.err = NoErr /\ res.b.got.err = NoErr
        /\ res.a.got.msg = res.b.got.msg
        /\ res.a.got.msg.Data = arg.msg.Data

\* max payload exactly 4 against a larger one, with different frame counts
C2_Witness ==
    /\ res.done /\ maxFramePayload = 4 /\ arg.max2 > 4
    /\ res.a.frames > res.b.frames /\ res.b.frames > 1
    /\ res.a.got.msg = res.b.got.msg
    /\ res.a.got.err = NoErr

\* the five criteria, read off the header bytes
BadMagic(hdr) == hdr[1] # 83 \/ hdr[2] # 66
BadVersion(hdr) == hdr[3] # 1
UnknownType(hdr) == hdr[4] \notin (1..5) \cup {16, 254, 255}
InvalidFlags(hdr) == hdr[5] # 0 \/ hdr[6] > 3
TooLarge(hdr, max) ==
    hdr[15] # 0 \/ hdr[16] # 0 \/ hdr[17] * 256 + hdr[18] > max

\* C4 (header rejection order): the header is rejected with the error of the
\* first criterion it violates in the order magic, version, type, flags, size,
\* whatever else it violates, and accepted if it violates none.
C4_HeaderRejectionOrder ==
    res.done =>
        LET h == arg.hdr
            e == res.h.err
        IN  /\ e = ErrBadMagic <=> BadMagic(h)
            /\ e = ErrBadVersion <=> ~BadMagic(h) /\ BadVersion(h)
            /\ e = ErrUnknownType <=> ~BadMagic(h) /\ ~BadVersion(h) /\ UnknownType(h)
            /\ e = ErrInvalidFlags <=>
                   ~BadMagic(h) /\ ~BadVersion(h) /\ ~UnknownType(h) /\ InvalidFlags(h)
            /\ e = ErrFrameTooLarge <=>
                   /\ ~BadMagic(h) /\ ~BadVersion(h) /\ ~UnknownType(h) /\ ~InvalidFlags(h)
                   /\ TooLarge(h, maxFramePayload)
            /\ e = NoErr <=>
                   /\ ~BadMagic(h) /\ ~BadVersion(h) /\ ~UnknownType(h) /\ ~InvalidFlags(h)
                   /\ ~TooLarge(h, maxFramePayload)

\* a header violating all five criteria was rejected as bad magic
C4_Witness ==
    /\ res.done
    /\ BadMagic(arg.hdr) /\ BadVersion(arg.hdr) /\ UnknownType(arg.hdr)
    /\ InvalidFlags(arg.hdr) /\ TooLarge(arg.hdr, maxFramePayload)
    /\ res.h.err = ErrBadMagic

-----------------------------------------------------------------------------
(* Claims on the connection *)

\* a call has a value to return: its deferred functions have not run yet
ReadReturning(r) == rcv[r].pc = "ret"
SendReturning(s) == snd[s].pc = "ret"

\* C3 (malformed frame closes): a ReadNext that met a protocol-class error on
\* the receive path (in the header checks of a frame it decoded, or in its own
\* checks of the frame) has closed the endpoint when it returns, also when its
\* token was already signalled at the moment the frame was decoded.
C3_MalformedFrameCloses ==
    \A r \in Readers : (ReadReturning(r) /\ rcv[r].proto) => ncClosed

\* C7 (deadline restored): while no ReadNext holds the read side, the read
\* deadline is none and no hook of an earlier call is left to set it; the same
\* for Send and the write deadline.
C7_DeadlineRestored ==
    /\ readMu = "free" => (rDeadline = "none" /\ hook.pendR = 0)
    /\ writeMu = "free" => (wDeadline = "none" /\ hook.pendW = 0)

\* C8 (cancellation cause preferred): a call whose transport read or write
\* failed returns the token's error if the token was signalled then, and the
\* transport's error otherwise.
C8_CancellationPreferred ==
    /\ \A r \in Readers : (ReadReturning(r) /\ rcv[r].ioErr # NoErr) =>
           rcv[r].err = IF rcv[r].sig THEN ctx[rcv[r].tok].err ELSE rcv[r].ioErr
    /\ \A s \in Senders : (SendReturning(s) /\ snd[s].ioErr # NoErr) =>
           snd[s].err = IF snd[s].sig THEN ctx[snd[s].tok].err ELSE snd[s].ioErr

\* C10 (I/O errors and cancellation are not fatal): a ReadNext or Send that
\* returns after a failed transport operation, or with the token's error,
\* returns exactly the transport's or the token's error, no protocol error, and
\* has not closed the endpoint.
C10_IOErrorNotFatal ==
    /\ \A r \in Readers :
           (ReadReturning(r) /\ (rcv[r].ioErr # NoErr \/ (rcv[r].sig /\ rcv[r].err # NoErr))) =>
               /\ rcv[r].err \in {rcv[r].ioErr, ctx[rcv[r].tok].err}
               /\ rcv[r].err # NoErr
               /\ ~isProtocolErr(rcv[r].err)
               /\ ~rcv[r].closed
    /\ \A s \in Senders :
           (SendReturning(s) /\ snd[s].ioErr # NoErr) =>
               /\ snd[s].err = snd[s].ioErr
               /\ ~isProtocolErr(snd[s].err)

\* a ReadNext returns EOF after a short read, one returns the token's error, and
\* the endpoint is open
C10_Witness ==
    \E r \in Readers :
        /\ ReadReturning(r) /\ ~ncClosed
        /\ rcv[r].ioErr = ErrUnexpectedEOF
        /\ rcv[r].err \in {ErrUnexpectedEOF, ErrCanceled}

\* the calls whose writes are on the wire, in the order of first appearance, do
\* not repeat: the writes of one call are one contiguous run
Contiguous(w) ==
    \A i, k \in 1..Len(w) : (i < k /\ w[i] = w[k]) => \A j \in i..k : w[j] = w[i]

IsPrefix(a, b) == Len(a) <= Len(b) /\ a = SubSeq(b, 1, Len(a))

\* C5 (atomic fragmented send): the header and payload writes of each Send
\* call are one contiguous run of the writes on the transport; no write of
\* another call lies between two writes of one call.
C5_AtomicSend == Contiguous(log.writes)

\* one sender is between two frames of its message while the other has called
\* Send and waits
C5_Witness ==
    \E s, t \in Senders :
        /\ snd[s].pc = "write" /\ snd[s].wrote >= 2
        /\ snd[t].pc = "lock"
        /\ Len(log.writes) >= 2

OrderOfCleanRuns == log.clean => IsPrefix(log.delivered, log.sent)

\* a ReadNext waits in a transport read for bytes that are not there
Starved(r) ==
    /\ rcv[r].pc \in {"hdr", "body"}
    /\ Len(wire) < (IF rcv[r].pc = "hdr" THEN headerLen ELSE rcv[r].need)

\* C9 (cancellation unblocks receive): a ReadNext that waits for bytes while
\* its token is signalled (cancelled before the call or during it) eventually
\* returns, and what it returns is the token's error.
C9_CancelUnblocksRead ==
    \A r \in Readers :
        (Starved(r) /\ ctx[rcv[r].tok].done)
            ~> (ReadReturning(r) /\ rcv[r].err = ctx[rcv[r].tok].err /\ rcv[r].err # NoErr)

\* a ReadNext called with a token that was already cancelled, on a transport
\* with no frame, returns the cancellation error after its read timed out
C9_Witness ==
    \E r \in Readers :
        /\ ReadReturning(r) /\ rcv[r].tok = "tc"
        /\ rcv[r].ioErr = ErrTimeout
        /\ rcv[r].err = ErrCanceled
        /\ log.reads = 2

-----------------------------------------------------------------------------
(* Claims on the handshake *)

\* the server has received a message as the auth_proof and unmarshalled it
GotProof == hs.srv.at >= 0

\* the server has sent, or is about to send, auth_ok
Accepts ==
    \/ hs.srv.pc = "ok"
    \/ \E i \in 1..Len(hs.srv.ev) : hs.srv.ev[i].op = "send" /\ hs.srv.ev[i].typ = TypeAuthOK

\* the signature in the proof is 64 bytes made with the private key of the
\* public key the registry returned, over the canonical string of the four
\* fields echoed in the proof
SignatureBinds ==
    LET p == hs.srv.proof.v
        sig == p.signature
    IN  /\ sig.b64 /\ sig.raw.len = 64
        /\ sig.raw.by \in Keys /\ Public(sig.raw.by) = hs.srv.pub
        /\ sig.raw.over = <<"switchboard-auth-v1", p.agent_id, p.challenge_id, p.nonce,
                            p.issued_at_ms>>

\* the four echoed fields are the ones of the challenge the server issued
EchoMatches ==
    LET p == hs.srv.proof.v
    IN  /\ p.agent_id = hs.srv.agentID
        /\ p.challenge_id = hs.srv.ch.challenge_id
        /\ p.nonce = hs.srv.ch.nonce
        /\ p.issued_at_ms = hs.srv.ch.issued_at_ms

\* C11 as stated (signature binding, both directions): the server accepts the
\* proof if and only if its signature verifies under the registered key over
\* the canonical string of the echoed fields.
C11_AcceptsIffSignature == GotProof => (Accepts <=> (~hs.srv.proof.err /\ SignatureBinds))

\* C11 amended: the server accepts only a proof whose signature verifies under
\* the registered key over the canonical string of the echoed fields, and it
\* accepts every such proof whose echoed fields are the challenge's and that
\* it checks no later than expires_at_ms; it returns success only after
\* accepting.
C11_SignatureBinding ==
    /\ GotProof =>
          (Accepts <=> /\ ~hs.srv.proof.err /\ SignatureBinds /\ EchoMatches
                       /\ hs.srv.at <= hs.srv.ch.expires_at_ms)
    /\ hs.srv.ret = "ok" => (GotProof /\ Accepts)

\* the server returned success on a proof signed with the registered key
C11_Witness ==
    /\ hs.srv.ret = "ok" /\ GotProof /\ SignatureBinds
    /\ arg.client = "peer"

\* the codes failAuth is called with
Codes ==
    {"protocol_error", "unknown_agent", "replayed_challenge", "expired_challenge",
     "bad_signature", "internal_error"}

\* the server has returned after rejecting what it received: with one of the
\* codes, or on an auth_begin whose JSON it does not accept
Rejected == hs.srv.pc = "done" /\ hs.srv.ret \in Codes \cup {"json"}

\* how often the server has tried to send a message of frame type typ
Sends(typ) ==
    Cardinality({i \in 1..Len(hs.srv.ev) :
                    hs.srv.ev[i].op = "send" /\ hs.srv.ev[i].typ = typ})

\* C12 (server failure policy): whenever the server has rejected a handshake,
\* the last three things it did are: one attempt to send auth_error, closing
\* the connection, returning the failure -- whether or not the send worked --
\* and an auth_error that got in flight carries the code returned.
C12_FailurePolicy ==
    Rejected =>
        LET ev == hs.srv.ev
            n == Len(ev)
        IN  /\ n >= 3
            /\ ev[n - 2].op = "send" /\ ev[n - 2].typ = TypeAuthError
            /\ ev[n - 1].op = "close"
            /\ ev[n].op = "return" /\ ev[n].what # "ok"
            /\ Sends(TypeAuthError) = 1
            /\ hs.closed.srv
            /\ (ev[n - 2].what = "" /\ arg.client = "peer" /\ ~hs.closed.cli) =>
                   LET m == hs.s2c[Len(hs.s2c)]
                   IN  m.typ = TypeAuthError /\ m.payload.f.code = hs.srv.ret

\* the server has taken an auth_begin with a valid header and an agent_id
BeginTaken == hs.srv.pc \notin {"off", "begin"} /\ ~Blank(hs.srv.agentID)

\* C13 (unknown agent): if the registry has no key for the agent_id claimed in
\* auth_begin, or a key whose derived agent_id is another one, the server
\* rejects with unknown_agent and sends neither auth_challenge nor auth_ok.
C13_UnknownAgent ==
    BeginTaken =>
        LET claimed == hs.srv.agentID
            pub == IF claimed \in DOMAIN arg.registry THEN arg.registry[claimed] ELSE "none"
            other == pub \in {"P1", "P2"} /\ agentIDFromPublicKey(pub).id # claimed
        IN  (pub = "none" \/ other) =>
                /\ hs.srv.pc \in {"fail", "done"}
                /\ hs.srv.code = "unknown_agent"
                /\ hs.srv.pc = "done" => hs.srv.ret = "unknown_agent"
                /\ Sends(TypeAuthChallenge) = 0 /\ Sends(TypeAuthOK) = 0
                /\ hs.srv.ch = NoChallenge

\* the server returned unknown_agent for an agent_id whose registry entry is
\* the key of another agent
C13_Witness ==
    /\ hs.srv.pc = "done" /\ hs.srv.ret = "unknown_agent"
    /\ hs.srv.agentID = "A1" /\ arg.registry["A1"] = "P2"
    /\ Sends(TypeAuthError) = 1

\* C14 (replay defence): a well-formed auth_proof in which agent_id,
\* challenge_id, nonce or issued_at_ms differs from the value bound in the
\* issued challenge is rejected with code replayed_challenge.
C14_ReplayDefence ==
    (GotProof /\ ~hs.srv.proof.err /\ ~EchoMatches) =>
        /\ hs.srv.code = "replayed_challenge"
        /\ ~Accepts

\* C15 (challenge freshness): expires_at_ms is issued_at_ms plus the TTL; a
\* well-formed proof whose bound fields match is rejected with
\* expired_challenge exactly when the clock at the check is greater than
\* expires_at_ms, and is then not answered with auth_ok whatever its signature.
C15_Freshness ==
    (GotProof /\ ~hs.srv.proof.err /\ EchoMatches) =>
        LET expires == hs.srv.ch.issued_at_ms + ChallengeTTL
        IN  /\ hs.srv.ch.expires_at_ms = expires
            /\ hs.srv.code = "expired_challenge" <=> hs.srv.at > expires
            /\ hs.srv.at > expires => ~Accepts
            /\ (hs.srv.at <= expires /\ SignatureBinds) => Accepts

\* a validly signed proof, checked one tick after expires_at_ms, was rejected
\* with expired_challenge
C15_Witness ==
    /\ GotProof /\ ~hs.srv.proof.err /\ EchoMatches /\ SignatureBinds
    /\ hs.srv.at = hs.srv.ch.expires_at_ms + 1
    /\ hs.srv.pc = "done" /\ hs.srv.ret = "expired_challenge"

\* the JSON header of a payload is the one unmarshalAndValidate wants for kind
ValidHeader(payload, kind) ==
    /\ payload.form = "json"
    /\ "type" \in DOMAIN payload.f /\ payload.f.type = kind
    /\ "v" \in DOMAIN payload.f /\ payload.f.v = 1

\* the value of a field of a payload, "" when it has none
FieldOf(payload, k) ==
    IF payload.form = "json" /\ k \in DOMAIN payload.f THEN payload.f[k] ELSE ""

\* the client got a message for the result
GotResult == hs.cli.pc = "done" /\ hs.cli.got

\* the client returns success exactly on an auth_ok with a valid header and its
\* own agent_id, and closes the connection on a frame type that is neither
\* auth_ok nor auth_error
OkAndOtherTypes ==
    LET m == hs.cli.msg
    IN  /\ hs.cli.ret = "ok" <=>
               /\ m.typ = TypeAuthOK /\ ValidHeader(m.payload, "auth_ok")
               /\ FieldOf(m.payload, "agent_id") = hs.cli.agentID
        /\ m.typ \notin {TypeAuthOK, TypeAuthError} =>
               (hs.cli.ret = "type" /\ hs.closed.cli)

HappySetting ==
    /\ arg.client = "code" /\ arg.server = "code" /\ ~arg.faults
    /\ arg.registry[agentIDFromPublicKey(Public(arg.key)).id] = Public(arg.key)

\* the handshake of TestAuthHappyPath: both calls run on the two ends of one
\* pipe, nobody else writes to it, and the clock may advance
InitHappy == InitAuth /\ HappySetting

NextHappy == ServerRecv \/ ServerSend \/ ServerFail \/ ClientSend \/ ClientRecv \/ Tick

\* each call, started on a goroutine of its own, keeps being scheduled
SpecHappy ==
    /\ InitHappy /\ [][NextHappy]_vars
    /\ WF_vars(ServerRecv) /\ WF_vars(ServerSend) /\ WF_vars(ServerFail)
    /\ WF_vars(ClientSend) /\ WF_vars(ClientRecv)

\* the handshake with its timeouts in force: a read with nothing in flight
\* returns when readTimeout is over, a send returns when it is written or
\* writeTimeout is over.  The other end runs the program too, or is a peer
\* that sends what it likes, stays silent or hangs up.
InitBounded ==
    /\ InitAuth
    /\ arg.faults
    /\ arg.registry \in {[A1 |-> "P1", A2 |-> "P2"], [A1 |-> "none", A2 |-> "P2"]}

\* each call runs on its goroutine and keeps being scheduled
SpecBounded ==
    /\ InitBounded /\ [][NextAuth]_vars
    /\ WF_vars(ServerRecv) /\ WF_vars(ServerSend) /\ WF_vars(ServerFail)
    /\ WF_vars(ClientSend) /\ WF_vars(ClientRecv)

\* what one side did, as frame types sent and received, in order
Exchange(ev) ==
    LET keep == {i \in 1..Len(ev) : ev[i].op \in {"send", "recv"}}
        nth(k) == CHOOSE i \in keep : Cardinality({j \in keep : j < i}) = k - 1
    IN  [k \in 1..Cardinality(keep) |-> <<ev[nth(k)].op, ev[nth(k)].typ>>]

\* C17 (happy path): in the happy setting both calls eventually return, and
\* unless the clock passed expires_at_ms before the server's check both return
\* success, after exactly auth_begin, auth_challenge, auth_proof, auth_ok.
C17_HappyPath ==
    HappySetting ~>
        /\ hs.srv.pc = "done" /\ hs.cli.pc = "done"
        /\ hs.srv.at <= hs.srv.ch.expires_at_ms =>
              /\ hs.srv.ret = "ok" /\ hs.cli.ret = "ok"
              /\ Exchange(hs.cli.ev) =
                     <<<<"send", TypeAuthBegin>>, <<"recv", TypeAuthChallenge>>,
                       <<"send", TypeAuthProof>>, <<"recv", TypeAuthOK>>>>
              /\ Exchange(hs.srv.ev) =
                     <<<<"recv", TypeAuthBegin>>, <<"send", TypeAuthChallenge>>,
                       <<"recv", TypeAuthProof>>, <<"send", TypeAuthOK>>>>

\* both calls have returned success
C17_Witness ==
    /\ HappySetting
    /\ hs.srv.pc = "done" /\ hs.srv.ret = "ok"
    /\ hs.cli.pc = "done" /\ hs.cli.ret = "ok"
    /\ hs.c2s = <<>> /\ hs.s2c = <<>>

-----------------------------------------------------------------------------
(* Claims on the key store *)

\* the two key paths as they are now
KeyFiles == [priv |-> ks.file.priv, pub |-> ks.file.pub]

\* exactly one of the two key files existed when the call started
ExactlyOne(start) == (start.priv = Absent) # (start.pub = Absent)

\* the call has made no change below the key directory
Untouched(me) ==
    /\ ~me.touched /\ me.gen = ""
    /\ KeyFiles = me.start
    /\ ks.file.privTmp = Absent /\ ks.file.pubTmp = Absent

\* C18 (no silent key regeneration): a call that starts with exactly one of the
\* two key files present returns an error and creates, overwrites or deletes
\* no file, at no step; a key pair is generated only in a call that started
\* with both files absent.
C18_NoSilentRegeneration ==
    \A p \in Procs :
        LET me == ks.proc[p]
        IN  /\ ((me.pc # "idle" \/ me.n > 0) /\ ExactlyOne(me.start)) => Untouched(me)
            /\ (me.pc = "idle" /\ me.n > 0 /\ ExactlyOne(me.start)) => me.last.err # ""
            /\ me.gen # "" => (me.start.priv = Absent /\ me.start.pub = Absent)

\* a call found a private key and no public key, and returned the error
C18_Witness ==
    LET me == ks.proc["p1"]
    IN  /\ me.pc = "idle" /\ me.n > 0
        /\ me.start = [priv |-> Pem("PRIVATE KEY", "K1"), pub |-> Absent]
        /\ me.last.err = "incomplete"
        /\ KeyFiles = me.start

\* C19 (stable identity): every call made after a first call has succeeded
\* returns the key pair and agent id that call returned, and changes no file;
\* a call returns an identity only with a public key derived from the private
\* key, and fails when the public key file read does not match the private one.
C19_StableIdentity ==
    \A p \in Procs :
        LET me == ks.proc[p]
            priv == parseEd25519PrivateKeyPKCS8(me.start.priv)
            pub == parseEd25519PublicKeySPKI(me.start.pub)
            returned == me.pc = "idle" /\ me.n > 0
        IN  /\ ((me.pc # "idle" \/ me.n > 0) /\ me.after) => Untouched(me)
            /\ (returned /\ me.after) => (me.last.err = "" /\ me.last = ks.first)
            /\ (returned /\ me.last.err = "") =>
                   /\ me.last.pub = Public(me.last.priv)
                   /\ me.last.id = agentIDFromPublicKey(me.last.pub).id
            /\ (returned /\ ~priv.err /\ ~pub.err /\ pub.key # Public(priv.key)) =>
                   me.last.err # ""

\* a third call, made after a call had succeeded, returned the same pair again
\* and the two files hold that pair
C19_Witness ==
    LET me == ks.proc["p1"]
    IN  /\ me.pc = "idle" /\ me.n >= 3 /\ me.after
        /\ me.last.err = "" /\ me.last = ks.first
        /\ KeyFiles = [priv |-> marshalEd25519PrivateKeyPKCS8PEM(me.last.priv),
                       pub |-> marshalEd25519PublicKeySPKIPEM(me.last.pub)]

-----------------------------------------------------------------------------
(* Claims on the two directions of a connection *)

\* one task calls Send and one task calls ReadNext on a connection whose
\* transport delivers what is written and has no deadline set; no step is
\* forced to happen
InitDuplex == InitScenario(Scenario({"s1"}, {"r1"}, {"bg"}, SomeMessages))

NextDuplex ==
    \/ \E s \in arg.senders, m \in arg.msgs, tok \in arg.tokens : SendBegin(s, m, tok)
    \/ \E s \in arg.senders : SendLock(s)
    \/ \E s \in arg.senders : SendWrite(s)
    \/ \E s \in arg.senders : SendReturn(s)
    \/ \E r \in arg.readers, tok \in arg.tokens : ReadBegin(r, tok)
    \/ \E r \in arg.readers : ReadLock(r)
    \/ \E r \in arg.readers : ReadHeader(r)
    \/ \E r \in arg.readers : ReadPayload(r)
    \/ \E r \in arg.readers : ReadReturn(r)

SpecDuplex == InitDuplex /\ [][NextDuplex]_vars

\* the steps of a Send call after it was made, and of a ReadNext call
SendRuns ==
    \E s \in arg.senders : SendLock(s) \/ SendWrite(s) \/ SendWriteFail(s) \/ SendReturn(s)

ReadRuns ==
    \E r \in arg.readers :
        ReadLock(r) \/ ReadHeader(r) \/ ReadPayload(r) \/ ReadIOFail(r) \/ ReadReturn(r)

\* C20 (independent directions): if the task in Send keeps being scheduled,
\* every Send returns, even when the ReadNext task holds readMu for ever,
\* waiting for bytes or not running at all; if the task in ReadNext keeps being
\* scheduled, every ReadNext returns or waits for bytes of the transport, even
\* when the Send task holds writeMu for ever; writeMu is only held by a Send
\* and readMu by a ReadNext.
C20_IndependentDirections ==
    /\ [](writeMu \in {"free"} \cup Senders /\ readMu \in {"free"} \cup Readers)
    /\ WF_vars(SendRuns) => \A s \in Senders : (snd[s].pc # "idle") ~> (snd[s].pc = "idle")
    /\ WF_vars(ReadRuns) =>
           \A r \in Readers : (rcv[r].pc # "idle") ~> (rcv[r].pc = "idle" \/ Starved(r))

\* a ReadNext holds readMu and waits for bytes while a Send, holding writeMu,
\* has written part of its message
C20_Witness ==
    /\ readMu = "r1" /\ Starved("r1")
    /\ writeMu = "s1" /\ snd["s1"].pc = "write" /\ snd["s1"].wrote > 0

-----------------------------------------------------------------------------
(* Claims on ReadNext's checks *)

\* the frame ReadNext read first
Opener == arg.frames[1]

\* ReadNext failed with error e, closed the connection and returned no message
FailsClosed(e) ==
    /\ res.got.err = e
    /\ res.got.closed
    /\ res.got.msg = ZeroMessage

\* the four defects of an envelope
BadEnvelope(p) ==
    \/ Len(p) < 4
    \/ p[3] # 0 \/ p[4] # 0
    \/ p[2] # 0
    \/ p[1] \notin {1, 2, 3}

\* C21 as stated (envelope strictness): every opening frame of type payload
\* whose payload is shorter than 4 bytes, or has reserved # 0, format # 0 or a
\* kind outside {1,2,3}, makes ReadNext fail with an envelope error and close
\* the connection, and no message is delivered.
C21_EnvelopeStrictAnyOpener ==
    (res.done /\ Opener.typ = TypeMessagePayload /\ BadEnvelope(Opener.payload)) =>
        FailsClosed(ErrEnvelope)

\* C21 amended: the same for an opening frame that carries START and a
\* stream_id other than 0; without START the error is the fragmentation
\* error, with stream_id 0 the invalid stream id error, and in both cases the
\* connection is closed and no message is delivered; a payload opening frame
\* with START, a stream_id and none of the four defects is not rejected.
C21_EnvelopeStrict ==
    (res.done /\ Opener.typ = TypeMessagePayload) =>
        LET bad == BadEnvelope(Opener.payload)
        IN  /\ (bad /\ Opener.flags \in {1, 3} /\ Opener.streamID # 0) => FailsClosed(ErrEnvelope)
            /\ (bad /\ Opener.flags \in {0, 2}) => FailsClosed(ErrFragmentation)
            /\ (bad /\ Opener.flags \in {1, 3} /\ Opener.streamID = 0) =>
                   FailsClosed(ErrInvalidStreamID)
            /\ res.got.err = ErrEnvelope => bad
            /\ (~bad /\ Opener.flags = 3 /\ Opener.streamID # 0) =>
                   (res.got.err = NoErr /\ res.got.msg.Kind = Opener.payload[1])

\* a payload opening frame with START|END and stream 1 whose only defect is a
\* reserved byte was rejected with the envelope error
C21_Witness ==
    /\ res.done
    /\ Opener = Frame(TypeMessagePayload, startEndFlags, 1, <<1, 0, 0, 1>>)
    /\ FailsClosed(ErrEnvelope)

\* C24 (no mid-stream reassembly): when the first frame a ReadNext call reads
\* has flags 0 or END only, ReadNext closes the connection and fails with the
\* fragmentation error after that one frame; every message ReadNext delivers
\* began with a frame that carried START.
C24_NoMidStream ==
    res.done =>
        /\ Opener.flags \in {0, flagEnd} => (FailsClosed(ErrFragmentation) /\ res.used = 1)
        /\ res.got.err = NoErr => Opener.flags \in {flagStart, startEndFlags}

\* an auth_begin continuation frame with END, read first, was rejected
C24_Witness ==
    /\ res.done
    /\ Opener = Frame(TypeAuthBegin, flagEnd, 0, <<>>)
    /\ Len(arg.frames) = 2
    /\ FailsClosed(ErrFragmentation) /\ res.used = 1

\* the opening frame starts a reassembly: START without END, and it passes
\* the checks ReadNext makes on an opening frame of its type
OpensReassembly ==
    /\ Opener.flags = flagStart
    /\ \/ Opener.typ \in AuthTypes /\ Opener.streamID = 0
       \/ Opener.typ = TypeMessagePayload /\ Opener.streamID # 0 /\ ~BadEnvelope(Opener.payload)

\* frame i of the run obeys the continuation rules
GoodCont(i) ==
    /\ arg.frames[i].typ = Opener.typ
    /\ arg.frames[i].streamID = Opener.streamID
    /\ arg.frames[i].flags \in {0, flagEnd}

\* the first frame after the opener that breaks a rule or carries END; 0 if none
Decisive ==
    LET hits == {i \in 2..Len(arg.frames) : ~GoodCont(i) \/ arg.frames[i].flags = flagEnd}
    IN  IF hits = {} THEN 0 ELSE CHOOSE i \in hits : \A j \in hits : i <= j

\* the bytes of the message the frames 1..n carry
RECURSIVE Carried(_)
Carried(n) ==
    IF n = 1
    THEN (IF Opener.typ = TypeMessagePayload THEN SubSeq(Opener.payload, 5, Len(Opener.payload))
          ELSE Opener.payload)
    ELSE Carried(n - 1) \o arg.frames[n].payload

\* C25 (continuation discipline): in a reassembly, the first further frame
\* whose type or stream_id is not the opener's, or that has START set or flags
\* outside {0, END}, makes ReadNext close the connection and fail with the
\* fragmentation error; otherwise reassembly ends at the first continuation
\* frame with END, and the message is the opener's type and stream with the
\* bytes of all frames up to that one, in order; nothing past that frame is
\* read; this holds for payload and for auth messages.
C25_ContinuationDiscipline ==
    (res.done /\ OpensReassembly) =>
        LET d == Decisive
        IN  IF d = 0
            THEN res.got.err = ErrEOF /\ ~res.got.closed
            ELSE IF ~GoodCont(d)
            THEN FailsClosed(ErrFragmentation) /\ res.used = d
            ELSE /\ res.got.err = NoErr /\ ~res.got.closed /\ res.used = d
                 /\ res.got.msg.Type = Opener.typ /\ res.got.msg.StreamID = Opener.streamID
                 /\ (IF Opener.typ = TypeMessagePayload
                     THEN res.got.msg.Data ELSE res.got.msg.Payload) = Carried(d)

\* a payload message of three frames was reassembled: START, 0, END
C25_Witness ==
    /\ res.done /\ OpensReassembly /\ Opener.typ = TypeMessagePayload
    /\ Len(arg.frames) = 3 /\ Decisive = 3 /\ GoodCont(3)
    /\ res.got.err = NoErr /\ res.got.msg.Data = <<7, 9, 8>>

\* C28 (opening-frame validation): a ping or pong frame with stream_id # 0, a
\* payload, or flags other than START|END, an auth opening frame with
\* stream_id # 0 and a payload opening frame with stream_id 0 each make
\* ReadNext close the connection and fail with a protocol error, with no
\* message; a valid ping or pong is returned at once, with stream_id 0 and
\* no payload, and no further frame is read.
C28_OpeningValidation ==
    res.done =>
        LET protocolFail == /\ isProtocolErr(res.got.err) /\ res.got.closed
                            /\ res.got.msg = ZeroMessage /\ res.used = 1
            withStart == Opener.flags \in {flagStart, startEndFlags}
        IN  /\ Opener.typ \in {TypePing, TypePong} =>
                   IF Opener.streamID # 0 \/ Opener.payload # <<>> \/ Opener.flags # startEndFlags
                   THEN /\ protocolFail
                        /\ withStart => res.got.err = ErrProtocol
                   ELSE /\ res.got.err = NoErr /\ ~res.got.closed /\ res.used = 1
                        /\ res.got.msg = Message(Opener.typ, 0, <<>>, 0, 0, <<>>)
            /\ (Opener.typ \in AuthTypes /\ Opener.streamID # 0) =>
                   /\ protocolFail
                   /\ withStart => res.got.err = ErrInvalidStreamID
            /\ (Opener.typ = TypeMessagePayload /\ Opener.streamID = 0) =>
                   /\ protocolFail
                   /\ withStart => res.got.err = ErrInvalidStreamID

\* a pong with START only was rejected, and a frame followed it
C28_Witness ==
    /\ res.done
    /\ Opener = Frame(TypePong, flagStart, 0, <<>>)
    /\ Len(arg.frames) = 2
    /\ FailsClosed(ErrProtocol) /\ res.used = 1

-----------------------------------------------------------------------------
(* Claims on Send's checks and on the frames it emits *)

\* the message breaks a rule of Send for its type, on this connection
SendMustReject ==
    LET m == arg.msg
    IN  \/ m.Type \in {TypePing, TypePong} /\ (m.StreamID # 0 \/ m.Payload # <<>> \/ m.Data # <<>>)
        \/ m.Type \in AuthTypes /\ m.StreamID # 0
        \/ m.Type = TypeMessagePayload /\
               (m.StreamID = 0 \/ m.Format # 0 \/ m.Kind \notin {1, 2, 3} \/ maxFramePayload < 4)
        \/ m.Type \notin {1, 2, 3, 4, 5, 16, 254, 255}

\* C22 (send-side validation writes nothing): Send returns a protocol error
\* and writes no byte when the message is a ping or pong with stream_id # 0 or
\* with a payload, an auth message with stream_id # 0, a payload message with
\* stream_id 0, a format other than opaque bytes, a kind outside the three
\* defined ones or a max frame payload below 4, or has a type outside the
\* eight defined types; every other message is sent.
C22_RejectWritesNothing ==
    res.done =>
        IF SendMustReject
        THEN isProtocolErr(res.err) /\ res.frames = <<>> /\ res.bytes = <<>>
        ELSE res.err = NoErr /\ res.bytes # <<>>

\* a payload message valid in itself was rejected on a connection whose max
\* frame payload is 3, and nothing was written
C22_Witness ==
    /\ res.done /\ maxFramePayload = 3
    /\ arg.msg.Type = TypeMessagePayload /\ arg.msg.StreamID = 1
    /\ arg.msg.Kind = PayloadKindResponse /\ arg.msg.Format = 0 /\ Len(arg.msg.Data) = 2
    /\ res.err = ErrProtocol /\ res.bytes = <<>>

\* C26 (flag discipline on send): a successful Send emits at least one frame;
\* all its frames carry the message's type and stream_id; one frame alone
\* carries START|END; of several frames the first carries START, the last END
\* and those between carry no flag; a ping or pong is exactly one frame.
C26_FlagDiscipline ==
    (res.done /\ res.err = NoErr) =>
        LET n == Len(res.frames)
        IN  /\ n >= 1
            /\ \A i \in 1..n :
                   /\ res.frames[i].typ = arg.msg.Type
                   /\ res.frames[i].streamID = arg.msg.StreamID
                   /\ res.frames[i].flags =
                          (IF i = 1 THEN flagStart ELSE 0) + (IF i = n THEN flagEnd ELSE 0)
            /\ arg.msg.Type \in {TypePing, TypePong} => n = 1

\* an auth message went out as three frames: START, 0, END
C26_Witness ==
    /\ res.done /\ res.err = NoErr
    /\ arg.msg.Type = TypeAuthError
    /\ Len(res.frames) = 3
    /\ res.frames[1].flags = flagStart /\ res.frames[2].flags = 0 /\ res.frames[3].flags = flagEnd

\* the payloads of frames i..n of what Send emitted, one after the other
RECURSIVE PayloadsFrom(_)
PayloadsFrom(i) ==
    IF i > Len(res.frames) THEN <<>> ELSE res.frames[i].payload \o PayloadsFrom(i + 1)

\* C27 (frame size and envelope placement on send): no frame Send emits has a
\* payload longer than the max frame payload; the first frame of a payload
\* message is the envelope <<kind, 0, 0, 0>> followed by the first
\* min(max - 4, |data|) data bytes, and the frames after it are non-empty and
\* hold the remaining data bytes, in order, and nothing else.
C27_EnvelopePlacement ==
    (res.done /\ res.err = NoErr) =>
        LET n == Len(res.frames)
            data == arg.msg.Data
            cap == IF maxFramePayload - 4 < Len(data) THEN maxFramePayload - 4 ELSE Len(data)
        IN  /\ \A i \in 1..n : Len(res.frames[i].payload) <= maxFramePayload
            /\ arg.msg.Type = TypeMessagePayload =>
                   /\ res.frames[1].payload = <<arg.msg.Kind, 0, 0, 0>> \o SubSeq(data, 1, cap)
                   /\ \A i \in 2..n : res.frames[i].payload # <<>>
                   /\ PayloadsFrom(2) = SubSeq(data, cap + 1, Len(data))

\* with max frame payload 4 the first frame held the envelope alone and the
\* data followed in continuation frames
C27_Witness ==
    /\ res.done /\ res.err = NoErr /\ maxFramePayload = 4
    /\ arg.msg.Type = TypeMessagePayload /\ Len(arg.msg.Data) = 5
    /\ Len(res.frames) = 3
    /\ Len(res.frames[1].payload) = 4 /\ Len(res.frames[3].payload) = 1

-----------------------------------------------------------------------------
(* Claims on the JSON header of auth payloads *)

\* C23 (auth JSON header check): a payload is accepted for an expected message
\* kind exactly when it is a JSON object whose "type" is the expected type
\* string and whose "v" is 1: an unknown, different or missing type, a
\* different or missing v, an empty body and a body that is no JSON are
\* rejected, and fields the expected message does not have change nothing;
\* an accepted payload yields its fields, a missing field its zero value.
C23_JSONHeader ==
    res.done =>
        LET p == arg.payload
            has(k) == p.form = "json" /\ k \in DOMAIN p.f
            headerOK == has("type") /\ p.f.type = arg.want /\ has("v") /\ p.f.v = 1
        IN  /\ ~res.out.err <=> headerOK
            /\ headerOK =>
                   \A k \in StructFields[arg.want] :
                       res.out.v[k] = (IF has(k) THEN p.f[k] ELSE ZeroOf(k))

\* an auth_ok payload that also carries "extra" and the fields of auth_proof
\* was accepted as auth_ok
C23_Witness ==
    /\ res.done /\ arg.want = "auth_ok"
    /\ arg.payload = JSONObject("auth_ok", 1, "auth_proof", TRUE)
    /\ ~res.out.err
    /\ res.out.v.agent_id = "x" /\ res.out.v.authenticated_at_ms = 0

-----------------------------------------------------------------------------
(* Claims on concurrent calls of ReadNext *)

\* C29 (atomic reassembly): with two tasks calling ReadNext on one connection,
\* every message a call returns is built from one contiguous run of frames of
\* a single message of the peer, so it is one of the messages the peer sent.
C29_AtomicReassembly ==
    \A i \in DOMAIN log.delivered :
        \E j \in DOMAIN log.sent : log.delivered[i] = log.sent[j]

\* with no call that returned an error, every returned message is one the
\* peer sent
AtomicOfCleanRuns ==
    log.clean =>
        \A i \in DOMAIN log.delivered :
            \E j \in DOMAIN log.sent : log.delivered[i] = log.sent[j]

-----------------------------------------------------------------------------
(* Claims on the server's handshake state machine *)

\* the states of the server view: AWAIT_BEGIN until the auth_begin is taken,
\* AWAIT_PROOF up to the verdict on the proof, then the terminal message and
\* the return
Stage(pc) ==
    CASE pc \in {"off", "begin"} -> 0
      [] pc \in {"challenge", "proof"} -> 1
      [] pc \in {"ok", "fail"} -> 2
      [] pc = "done" -> 3

\* the messages the server read and the sends it attempted, in order
ServerIO == SelectSeq(hs.srv.ev, LAMBDA e : e.op \in {"recv", "send"})

\* every step of the sequence is one the state machine allows
ServerIOInOrder ==
    LET io == ServerIO
        n == Len(io)
        recvs == {i \in 1..n : io[i].op = "recv"}
        terminal == {i \in 1..n : io[i].op = "send" /\ io[i].typ \in {TypeAuthOK, TypeAuthError}}
        good(i, op, typ) == io[i].op = op /\ io[i].typ = typ /\ io[i].what = ""
    IN  /\ n > 0 => io[1].op = "recv"
        /\ Cardinality(recvs) <= 2
        /\ Sends(TypeAuthChallenge) <= 1
        /\ Cardinality(terminal) <= 1
        /\ \A i \in 1..n :
            \* a failed read or send and a terminal message are the last
            /\ (io[i].what # "" \/ i \in terminal) => i = n
            \* the challenge answers the auth_begin, the second read follows
            \* the challenge, auth_ok answers the auth_proof
            /\ (io[i].op = "send" /\ io[i].typ = TypeAuthChallenge) =>
                   i = 2 /\ good(1, "recv", TypeAuthBegin)
            /\ (io[i].op = "recv" /\ i > 1) =>
                   i = 3 /\ good(2, "send", TypeAuthChallenge)
            /\ (io[i].op = "send" /\ io[i].typ = TypeAuthOK) =>
                   i = 4 /\ good(3, "recv", TypeAuthProof) /\ hs.srv.at >= 0
            /\ io[i].op = "send" =>
                   io[i].typ \in {TypeAuthChallenge, TypeAuthOK, TypeAuthError}

\* the call has returned: success after an auth_ok that was sent, and in every
\* other case the failure
ServerReturned ==
    hs.srv.pc = "done" =>
        LET ev == hs.srv.ev
            io == ServerIO
        IN  /\ ev # <<>> /\ ev[Len(ev)].op = "return"
            /\ \A i \in 1..(Len(ev) - 1) : ev[i].op # "return"
            /\ hs.srv.ret = "ok" <=>
                   (io # <<>> /\ io[Len(io)] = Ev("send", TypeAuthOK, ""))
            /\ (\E i \in 1..Len(io) : io[i].what # "") => hs.srv.ret # "ok"

\* a step of the server goes forward, by one read or one send, and nothing
\* follows the return
ServerForward ==
    hs'.srv # hs.srv =>
        /\ hs.srv.pc # "done"
        /\ Stage(hs'.srv.pc) >= Stage(hs.srv.pc)
        /\ hs'.srv.pc # hs.srv.pc
        /\ hs.srv.pc \in {"ok", "fail"} => hs'.srv.pc = "done"
        /\ hs.srv.pc = "fail" => hs'.srv.ret # "ok"
        /\ Len(SelectSeq(hs'.srv.ev, LAMBDA e : e.op \in {"recv", "send"}))
               <= Len(ServerIO) + 1

\* C30 (server handshake state machine): WaitForAgentAuthentication only moves
\* forward through AWAIT_BEGIN, AWAIT_PROOF and then OK or ERROR, one read or
\* one send at a time; it reads at most one message as the auth_begin and one
\* as the auth_proof, sends at most one auth_challenge and at most one of
\* auth_ok and auth_error, auth_ok only after a proof was received; a failed
\* read, a failed send and every rejection end the run with a failure, and
\* nothing is read or sent after it.
C30_ServerStateMachine ==
    /\ [](ServerIOInOrder /\ ServerReturned)
    /\ [][ServerForward]_vars

\* the server went through all four steps and returned success
C30_Witness ==
    /\ hs.srv.pc = "done" /\ hs.srv.ret = "ok"
    /\ Len(ServerIO) = 4
    /\ Sends(TypeAuthChallenge) = 1 /\ Sends(TypeAuthOK) = 1

-----------------------------------------------------------------------------
(* Claims on the server's checks of the proof *)

\* what is wrong with the proof at hand
ProofUnbound ==
    \/ arg.proof.challenge_id # IssuedChallenge.challenge_id
    \/ arg.proof.nonce # IssuedChallenge.nonce
    \/ arg.proof.issued_at_ms # IssuedChallenge.issued_at_ms
ProofExpired == arg.now > IssuedChallenge.expires_at_ms
ProofSigMalformed == ~arg.proof.signature.b64 \/ arg.proof.signature.raw.len # 64
ProofSigWrong ==
    LET sig == arg.proof.signature.raw
    IN  ~(/\ sig.by = "K1"
          /\ sig.over = <<"switchboard-auth-v1", "A1", arg.proof.challenge_id,
                          arg.proof.nonce, arg.proof.issued_at_ms>>)

-----------------------------------------------------------------------------
(* Claims on the client's challenge step *)

\* how often the client has tried to send a message of frame type typ
ClientSends(typ) ==
    Cardinality({i \in 1..Len(hs.cli.ev) :
                    hs.cli.ev[i].op = "send" /\ hs.cli.ev[i].typ = typ})

\* the value of a field of a JSON payload, the zero value when it has none
Field(payload, k) == IF k \in DOMAIN payload.f THEN payload.f[k] ELSE ZeroOf(k)

\* the message at the head of the client's queue is an auth_challenge the
\* client has to go on with
GoodChallenge ==
    /\ hs.s2c # <<>>
    /\ LET m == Head(hs.s2c)
       IN  /\ m.typ = TypeAuthChallenge
           /\ ValidHeader(m.payload, "auth_challenge")
           /\ Field(m.payload, "challenge_id") \notin {"", " "}
           /\ Field(m.payload, "nonce") \notin {"", " "}

\* the client's read for the challenge: it goes on to the proof exactly on a
\* good challenge, keeping the three fields as received, and returns a
\* failure in every other case
ClientTakesChallenge ==
    (hs.cli.pc = "challenge" /\ hs'.cli # hs.cli) =>
        IF GoodChallenge
        THEN /\ hs'.cli.pc = "proof"
             /\ \A k \in {"challenge_id", "nonce", "issued_at_ms"} :
                    hs'.cli.ch[k] = Field(Head(hs.s2c).payload, k)
        ELSE /\ hs'.cli.pc = "done" /\ hs'.cli.ret \notin {"ok", "none"}
             /\ hs'.c2s = hs.c2s

\* the client's send of the proof: what gets in flight echoes the challenge
\* kept, with the local agent_id and a signature by the local key over the
\* canonical string of the four
ClientEchoes ==
    (hs.cli.pc = "proof" /\ hs'.cli # hs.cli) =>
        /\ hs'.cli.ch = hs.cli.ch
        /\ hs'.c2s # hs.c2s =>
            LET m == hs'.c2s[Len(hs'.c2s)]
                local == agentIDFromPublicKey(Public(arg.key)).id
            IN  /\ hs'.c2s = Append(hs.c2s, m)
                /\ m.typ = TypeAuthProof /\ ValidHeader(m.payload, "auth_proof")
                /\ m.payload.f.agent_id = local
                /\ \A k \in {"challenge_id", "nonce", "issued_at_ms"} :
                       m.payload.f[k] = hs.cli.ch[k]
                /\ m.payload.f.signature.raw =
                       [len |-> 64, by |-> arg.key,
                        over |-> <<"switchboard-auth-v1", local, hs.cli.ch.challenge_id,
                                   hs.cli.ch.nonce, hs.cli.ch.issued_at_ms>>]

\* the client has sent no auth_proof unless it took a challenge before, and
\* no second one
ProofAfterChallenge ==
    /\ ClientSends(TypeAuthProof) <= 1
    /\ ClientSends(TypeAuthProof) > 0 =>
        \E i, j \in 1..Len(hs.cli.ev) :
            /\ i < j
            /\ hs.cli.ev[i] = Ev("recv", TypeAuthChallenge, "")
            /\ hs.cli.ev[j].op = "send" /\ hs.cli.ev[j].typ = TypeAuthProof
            /\ ~Blank(hs.cli.ch.challenge_id) /\ ~Blank(hs.cli.ch.nonce)

\* C32 (client challenge step): AuthenticateAsClient sends auth_proof only
\* after it received a message of frame type auth_challenge with a valid
\* header and non-empty challenge_id and nonce; on any other message, or a
\* failed read, it fails without sending an auth_proof; the proof it sends
\* echoes challenge_id, nonce and issued_at_ms as received, with the local
\* agent_id.
C32_ChallengeStep ==
    /\ []ProofAfterChallenge
    /\ [][ClientTakesChallenge /\ ClientEchoes]_vars

\* the client sent its proof on a challenge of a peer in the server's place
C32_Witness ==
    /\ arg.server = "peer" /\ arg.client = "code"
    /\ ClientSends(TypeAuthProof) = 1
    /\ hs.cli.ch.challenge_id = "c1" /\ hs.cli.ch.nonce = "n1"
    /\ hs.c2s # <<>> /\ hs.c2s[Len(hs.c2s)].typ = TypeAuthProof

-----------------------------------------------------------------------------
(* Claims on what is delivered after a call that failed *)

\* C33 (delivered-message integrity under failed sends): every message
\* ReadNext returns is equal to a message that was passed to a Send call on
\* the peer, also when Send calls fail or are cancelled after writing some
\* frames, or a header without its payload, and further Send calls follow.
C33_DeliveredWasSent ==
    {log.delivered[i] : i \in DOMAIN log.delivered}
        \subseteq {log.sent[j] : j \in DOMAIN log.sent}

\* C34 (cancelled receive does not splice): once a ReadNext has returned a
\* cancellation or I/O error after consuming the opening frame of a fragmented
\* message, no later ReadNext on the connection returns a message.
C34_NoMessageAfterCut ==
    log.cut >= 0 => Len(log.delivered) = log.cut

-----------------------------------------------------------------------------
(* Claims on how the handshake ends *)

\* C35 (server error implies closed connection): whenever
\* WaitForAgentAuthentication has returned an error after it started reading,
\* it has closed the connection.
C35_ErrorImpliesClosed ==
    (hs.srv.pc = "done" /\ hs.srv.ret # "ok") => hs.closed.srv

\* the connection is closed on every error path but one: the read for the
\* auth_begin returned no frame (a timeout or an I/O error)
ClosedUnlessBeginReadFailed ==
    (hs.srv.pc = "done" /\ hs.srv.ret # "ok") =>
        (hs.closed.srv <=> ~(ServerIO = <<>> /\ hs.srv.ret \in {"timeout", "eof"}))

\* both ends of the connection run this program
BothCode == arg.client = "code" /\ arg.server = "code"

\* the server has written an auth_ok, and no auth_error
ServerWroteOk ==
    /\ \E i \in 1..Len(hs.srv.ev) : hs.srv.ev[i] = Ev("send", TypeAuthOK, "")
    /\ Sends(TypeAuthError) = 0

\* C36 (handshake agreement): with a server running WaitForAgentAuthentication,
\* AuthenticateAsClient returns success only if the server has verified the
\* client's proof, with the key registered for the client's agent_id, and has
\* written auth_ok for that agent_id; the server has not rejected the
\* handshake and returns nothing but success.
C36_Agreement ==
    (BothCode /\ hs.cli.pc = "done" /\ hs.cli.ret = "ok") =>
        /\ ServerWroteOk
        /\ hs.srv.ret \in {"none", "ok"}
        /\ hs.srv.agentID = hs.cli.agentID
        /\ hs.srv.pub = Public(hs.cli.key)
        /\ hs.srv.at >= 0 /\ ~hs.srv.proof.err
        /\ hs.srv.proof.v.signature.raw.by = hs.cli.key
        /\ hs.srv.proof.v.signature.raw.over =
               <<"switchboard-auth-v1", hs.cli.agentID, hs.srv.ch.challenge_id,
                 hs.srv.ch.nonce, hs.srv.ch.issued_at_ms>>
        /\ hs.srv.at <= hs.srv.ch.expires_at_ms

\* a client with the second key pair returned success from a run in which
\* timeouts could happen
C36_Witness ==
    /\ BothCode /\ hs.cli.pc = "done" /\ hs.cli.ret = "ok"
    /\ arg.key = "K2" /\ arg.faults
    /\ hs.srv.ret = "ok"

\* the auth_error of the server has been delivered to the client
ErrorDelivered ==
    /\ BothCode
    /\ \E i \in 1..Len(hs.cli.ev) : hs.cli.ev[i] = Ev("recv", TypeAuthError, "")

\* C37 (server code reaches the client): whenever the server has rejected the
\* handshake with auth_error{code} and the frame was delivered, in reply to
\* auth_begin or to auth_proof, AuthenticateAsClient returns a failure that
\* carries that code.
C37_CodeReachesClient ==
    ErrorDelivered =>
        /\ hs.cli.pc = "done" /\ hs.cli.ret = "auth_error"
        /\ hs.cli.code = hs.srv.code

\* the code does reach the client when the auth_error answers the auth_proof
CodeReachesAfterProof ==
    (ErrorDelivered /\ ClientSends(TypeAuthProof) > 0) =>
        /\ hs.cli.pc = "done" /\ hs.cli.ret = "auth_error"
        /\ hs.cli.code = hs.srv.code /\ hs.cli.code \in Codes

\* every call of the handshake that was made has returned
AllReturned ==
    /\ arg.server = "code" => hs.srv.pc = "done"
    /\ arg.client = "code" => hs.cli.pc = "done"

\* C38 (handshake termination): whatever the other end does -- runs the
\* program, stays silent, closes, sends malformed or unexpected frames --
\* AuthenticateAsClient and WaitForAgentAuthentication eventually return,
\* every read and send of theirs being bounded by its timeout.
C38_Termination == <>AllReturned

\* the server returned the read timeout on a peer that never sent and never
\* closed
C38_Witness ==
    /\ arg.client = "peer" /\ hs.sends = 0 /\ ~hs.closed.cli
    /\ hs.srv.pc = "done" /\ hs.srv.ret = "timeout"
    /\ arg.faults

\* at the framing layer: a ReadNext called with a deadline that waits for
\* bytes returns once the deadline is reached
DeadlineUnblocksRead ==
    \A r \in Readers :
        (Starved(r) /\ rcv[r].tok = "td" /\ ctx["td"].passed) ~> ReadReturning(r)

-----------------------------------------------------------------------------
(* Claims on the key store under concurrent first use and failures *)

\* no call of loadOrCreateAgentKey is in progress
NoKeyCall == \A p \in Procs : ks.proc[p].pc = "idle"

\* the two key files are a private and a public key that belong together
MatchingPair ==
    LET priv == parseEd25519PrivateKeyPKCS8(ks.file.priv)
        pub == parseEd25519PublicKeySPKI(ks.file.pub)
    IN  /\ ks.file.priv # Absent /\ ks.file.pub # Absent
        /\ ~priv.err /\ ~pub.err /\ Public(priv.key) = pub.key

\* C39 (key store consistency): after any sequence of loadOrCreateAgentKey
\* calls that started from an empty store, two processes at once and failed
\* file operations included, the store holds no key file, or a private and a
\* public file that form a matching pair.
C39_StoreConsistent ==
    NoKeyCall =>
        \/ ks.file.priv = Absent /\ ks.file.pub = Absent
        \/ MatchingPair

\* the store is consistent as long as one process is alone and no file
\* operation fails
ConsistentAloneWithoutFaults ==
    (~ks.faults /\ ks.proc["p2"].n = 0 /\ ks.proc["p2"].pc = "idle") => C39_StoreConsistent

====
